---- MODULE Spec2Model ----
(***************************************************************************)
(* A model of the embodied-clip research code:                             *)
(*   - habitat_baselines/rl/ddppo/policy/resnet_objgoal_policy.py          *)
(*       the object-goal policy: its construction from a configuration,    *)
(*       the backbone dispatch, the goal encoder and the forward pass;     *)
(*   - linear_probe.py                                                     *)
(*       the embeddings dataset and the linear-probe head and loss;        *)
(*   - projects/tutorials/minigrid_offpolicy_tutorial.py                   *)
(*       the off-policy training pipeline declaration.                     *)
(* Tensors are modelled by their shapes (sequences of dimensions) and,     *)
(* where contents matter, by the row-major sequence of their elements.     *)
(***************************************************************************)
EXTENDS Integers, Sequences, FiniteSets, TLC

VARIABLES
    \* ---- resnet_objgoal_policy.py ----
    observation_space,  \* gym spaces.Dict: sensor uuid -> [shape, high]
    action_space,       \* [n |-> number of discrete actions]
    config,             \* habitat Config: [RL |-> [PPO |-> ..., DDPPO |-> ...]]
    op,                 \* the entry point that was called and its extra inputs
    args,               \* what config_args returned (NoneValue before the call)
    policy,             \* what the constructor received, built and raised
    net,                \* a constructed ObjGoalResNetNet (forward's self)
    fwd,                \* the last forward call: its inputs and what it did
    tensor_goal_encoder,\* a constructed ResnetTensorGoalEncoder
    goal_call,          \* its last forward call, on tensors with contents
    \* ---- linear_probe.py ----
    linear_encoder,     \* LinearEncoder: hparams, model, what __init__ raised
    step,               \* the last training/validation/test step
    thor_input,         \* what THOREmbeddingsDataset.__init__ loaded from disk
    dataset,            \* THOREmbeddingsDataset: embeddings, predictions
    item,               \* the last __getitem__ call
    \* ---- minigrid_offpolicy_tutorial.py ----
    torch_cuda_is_available, \* what torch.cuda.is_available() answers in this process
    experiment_config,  \* the experiment class: inherited and own attributes
    pipeline,           \* the last training_pipeline call
    \* ---- ResNetEncoder on its own ----
    resnet_encoder,     \* a ResNetEncoder: what __init__ assigned or raised
    encoder_call        \* its last forward call

policyVars == <<observation_space, action_space, config, op, args, policy>>
forwardVars == <<net, fwd>>
goalVars == <<tensor_goal_encoder, goal_call>>
probeVars == <<linear_encoder, step>>
datasetVars == <<thor_input, dataset, item>>
tutorialVars == <<torch_cuda_is_available, experiment_config, pipeline>>
encoderVars == <<resnet_encoder, encoder_call>>
vars == <<policyVars, forwardVars, goalVars, probeVars, datasetVars, tutorialVars, encoderVars>>

NoneValue == "None"

(***************************************************************************)
(* Sensor uuids (habitat.tasks.nav), imported at the top of the policy.    *)
(***************************************************************************)
ObjectGoalUuid == "objectgoal"
GpsUuid == "gps"
CompassUuid == "compass"

SensorKeys == {ObjectGoalUuid, "rgb", "depth", GpsUuid, CompassUuid}

(***************************************************************************)
(* The observation spaces explored: every subset of the sensors, each      *)
(* sensor with one of a few Box spaces.  shape is the Box's shape, high    *)
(* its upper bound (high[0]).                                              *)
(***************************************************************************)
SpacesOf(k) ==
    CASE k = ObjectGoalUuid -> {[shape |-> <<1>>, high |-> 5]}
      [] k = "rgb"          -> {[shape |-> <<256, 256, 3>>, high |-> 255],
                                [shape |-> <<48, 48, 3>>, high |-> 255]}
      [] k = "depth"        -> {[shape |-> <<256, 256, 1>>, high |-> 1]}
      [] k = GpsUuid        -> {[shape |-> <<2>>, high |-> 100]}
      [] k = CompassUuid    -> {[shape |-> <<1>>, high |-> 4],
                                [shape |-> <<2>>, high |-> 4]}

AllSpaces == UNION {SpacesOf(k) : k \in SensorKeys}

ObservationSpaces ==
    UNION { {f \in [K -> AllSpaces] : \A k \in K : f[k] \in SpacesOf(k)} :
            K \in SUBSET SensorKeys }

ActionSpaces == {[n |-> 2]}

(***************************************************************************)
(* Backbone strings: the three the dispatch names, a longer string with    *)
(* the CLIP prefix, the policy's default and two near misses.              *)
(***************************************************************************)
Backbones == {"resnet50", "resnet50_imagenet", "resnet50_clip",
              "resnet50_clip_avgpool", "resnet18", "resnet50_cli", "se_resnet50"}

\* <<hidden_size, rnn_type, num_recurrent_layers>>
HyperParams == {<<512, "GRU", 1>>, <<256, "LSTM", 2>>, <<256, "GRU", 2>>}

Configs ==
    { [RL |-> [PPO   |-> [hidden_size |-> hp[1]],
               DDPPO |-> [rnn_type |-> hp[2], num_recurrent_layers |-> hp[3],
                          backbone |-> b]]] :
      hp \in HyperParams, b \in Backbones }

Devices == {"cpu", "cuda:0"}

(***************************************************************************)
(* What the collaborators outside this file hand back: the backbone that   *)
(* resnet.resnet50 makes (its final_spatial_compress is 1/den) and the     *)
(* output_shape that ResNetCLIPEncoder declares with pooling='none'.       *)
(***************************************************************************)
Envs ==
    { [backbone |-> [final_spatial_compress_den |-> d, final_channels |-> 1024],
       clip_output_shape |-> s] :
      d \in {16, 32}, s \in {<<2048, 7, 7>>, <<1024, 4, 4>>} }

(***************************************************************************)
(* Names bound at module level of resnet_objgoal_policy.py: the imports    *)
(* (lines 1-32) and the classes the file defines.  A name used in a        *)
(* method body and not bound here raises NameError when the line runs.     *)
(***************************************************************************)
ModuleNames ==
    {"Dict", "Tuple", "np", "torch", "spaces", "nn", "F", "T", "TF", "clip",
     "Config", "EpisodicCompassSensor", "EpisodicGPSSensor", "HeadingSensor",
     "ImageGoalSensor", "IntegratedPointGoalGPSAndCompassSensor",
     "PointGoalSensor", "ProximitySensor", "ObjectGoalSensor",
     "baseline_registry", "resnet", "ResNetEncoder", "ResNetCLIPEncoder",
     "RunningMeanAndVar", "build_rnn_state_encoder", "Net", "Policy",
     "ObjGoalResNetPolicy", "ResnetTensorGoalEncoder", "ObjGoalResNetNet"}

\* str.startswith
StartsWith(s, prefix) ==
    Len(s) >= Len(prefix) /\ SubSeq(s, 1, Len(prefix)) = prefix

\* Python's round(n / d) for n >= 0, d > 0: to nearest, ties to even.
RoundHalfEven(n, d) ==
    LET q == n \div d
        r == n % d
    IN  IF 2 * r < d THEN q
        ELSE IF 2 * r > d THEN q + 1
        ELSE IF q % 2 = 0 THEN q ELSE q + 1

NPrevAction == 32
ClassDims == 32
SensorEmbeddingDim == 32
AfterCompressionFlatSize == 2048
DefaultSpatialSize == 128

\* nn.Embedding, nn.Linear, nn.Conv2d (kernel 1): the widths they are built with.
Embedding(num_embeddings, embedding_dim) ==
    [num_embeddings |-> num_embeddings, embedding_dim |-> embedding_dim]
Linear(in_features, out_features) ==
    [in_features |-> in_features, out_features |-> out_features]
Conv2d(in_channels, out_channels) ==
    [in_channels |-> in_channels, out_channels |-> out_channels]

(***************************************************************************)
(* ResNetEncoder.__init__ (the class this file defines, which shadows the  *)
(* imported one).  shape[i] of the source is shape[i+1] here.              *)
(***************************************************************************)
ResNetEncoderInit(obs, backbone, normalize_visual_inputs) ==
    LET hasRgb   == "rgb" \in DOMAIN obs
        hasDepth == "depth" \in DOMAIN obs
        n_input_rgb   == IF hasRgb THEN obs["rgb"].shape[3] ELSE 0
        size_rgb      == IF hasRgb THEN obs["rgb"].shape[1] \div 2
                         ELSE DefaultSpatialSize
        n_input_depth == IF hasDepth THEN obs["depth"].shape[3] ELSE 0
        spatial_size  == IF hasDepth THEN obs["depth"].shape[1] \div 2
                         ELSE size_rgb
        input_channels == n_input_depth + n_input_rgb
        final_spatial == spatial_size \div backbone.final_spatial_compress_den
        base == [cls |-> "ResNetEncoder", raised |-> "none",
                 n_input_rgb |-> n_input_rgb, n_input_depth |-> n_input_depth,
                 input_channels |-> input_channels,
                 backbone |-> backbone,
                 running_mean_and_var |->
                     IF normalize_visual_inputs THEN input_channels ELSE 0,
                 output_shape |-> <<>>]
    IN  IF final_spatial = 0
        THEN [base EXCEPT !.raised = "ZeroDivisionError"]
        ELSE [base EXCEPT !.output_shape =
                 << RoundHalfEven(AfterCompressionFlatSize,
                                  final_spatial * final_spatial),
                    final_spatial, final_spatial >>]

NoBackbone == [final_spatial_compress_den |-> 0, final_channels |-> 0]

\* ResNetCLIPEncoder(observation_space, pooling='none', device=device)
ResNetCLIPEncoderInit(obs, device, env) ==
    [cls |-> "ResNetCLIPEncoder", raised |-> "none",
     n_input_rgb |-> 0, n_input_depth |-> 0, input_channels |-> 0,
     backbone |-> NoBackbone, running_mean_and_var |-> 0,
     output_shape |-> env.clip_output_shape]

NoEncoder(raised) ==
    [cls |-> NoneValue, raised |-> raised,
     n_input_rgb |-> 0, n_input_depth |-> 0, input_channels |-> 0,
     backbone |-> NoBackbone, running_mean_and_var |-> 0, output_shape |-> <<>>]

(***************************************************************************)
(* The backbone dispatch of ObjGoalResNetNet.__init__ (lines 275-292).     *)
(***************************************************************************)
VisualEncoderDispatch(backbone, obs, normalize_visual_inputs, device, env) ==
    IF backbone = "resnet50"
    THEN ResNetEncoderInit(obs, env.backbone, normalize_visual_inputs)
    ELSE IF backbone = "resnet50_imagenet"
    THEN IF "ResNetImageNetEncoder" \in ModuleNames
         THEN [NoEncoder("none") EXCEPT !.cls = "ResNetImageNetEncoder",
                                        !.output_shape = env.clip_output_shape]
         ELSE NoEncoder("NameError")
    ELSE IF StartsWith(backbone, "resnet50_clip")
    THEN ResNetCLIPEncoderInit(obs, device, env)
    ELSE NoEncoder("NotImplementedError")

(***************************************************************************)
(* ResnetTensorGoalEncoder.__init__ and its output_dims property.          *)
(* The hidden/out pairs are the constructor's defaults unless given.       *)
(***************************************************************************)
DefaultHiddenOutDims == <<128, 32>>

ResnetTensorGoalEncoderInit(resnet_tensor_shape, class_dims, resnet_hid_out_dims, combine_hid_out_dims) ==
    [resnet_tensor_shape |-> resnet_tensor_shape,
     class_dims |-> class_dims,
     resnet_hid_out_dims |-> resnet_hid_out_dims,
     combine_hid_out_dims |-> combine_hid_out_dims,
     resnet_compressor |->
         << Conv2d(resnet_tensor_shape[1], resnet_hid_out_dims[1]),
            Conv2d(resnet_hid_out_dims[1], resnet_hid_out_dims[2]) >>,
     target_obs_combiner |->
         << Conv2d(resnet_hid_out_dims[2] + class_dims, combine_hid_out_dims[1]),
            Conv2d(combine_hid_out_dims[1], combine_hid_out_dims[2]) >>]

output_dims(goal_encoder) ==
    goal_encoder.combine_hid_out_dims[Len(goal_encoder.combine_hid_out_dims)]
        * goal_encoder.resnet_tensor_shape[2]
        * goal_encoder.resnet_tensor_shape[3]

NoGoalEncoder ==
    ResnetTensorGoalEncoderInit(<<0, 0, 0>>, 0, <<0, 0>>, <<0, 0>>)

(***************************************************************************)
(* ObjGoalResNetNet.__init__.  built lists the sub-modules in the order    *)
(* they were constructed before the constructor returned or raised;        *)
(* layers is the set of attributes the finished object has.                *)
(***************************************************************************)
EmptyNet ==
    [raised |-> "none", built |-> <<>>,
     hidden_size |-> 0, n_prev_action |-> 0,
     prev_action_embedding |-> Embedding(0, 0),
     n_object_categories |-> 0,
     obj_categories_embedding |-> Embedding(0, 0),
     dispatch |-> NoneValue,
     visual_encoder |-> NoEncoder("none"),
     goal_encoder |-> NoGoalEncoder,
     gps_embedding |-> Linear(0, 0),
     compass_embedding |-> Linear(0, 0),
     state_encoder |-> [input_size |-> 0, hidden_size |-> 0,
                        rnn_type |-> NoneValue, num_layers |-> 0],
     device |-> NoneValue]

Raise(self, exc) == [self EXCEPT !.raised = exc]

\* build_rnn_state_encoder(rnn_input_size, hidden_size, rnn_type=, num_layers=)
build_rnn_state_encoder(input_size, hidden_size, rnn_type, num_layers) ==
    [input_size |-> input_size, hidden_size |-> hidden_size,
     rnn_type |-> rnn_type, num_layers |-> num_layers]

\* NetInitSensors with the compass branch's 'rnn_input_size += 32' left out
NetInitSensors_CompassNotCounted(self, obs, rnn_type, num_recurrent_layers) ==
    LET hasGps     == GpsUuid \in DOMAIN obs
        hasCompass == CompassUuid \in DOMAIN obs
        size0 == output_dims(self.goal_encoder) + self.n_prev_action
        n1 == IF hasGps
              THEN [self EXCEPT !.gps_embedding =
                                   Linear(obs[GpsUuid].shape[1], SensorEmbeddingDim),
                               !.built = Append(@, "gps_embedding")]
              ELSE self
        size1 == IF hasGps THEN size0 + SensorEmbeddingDim ELSE size0
    IN  IF hasCompass /\ obs[CompassUuid].shape[1] # 1
        THEN Raise(n1, "AssertionError")
        ELSE
        LET n2 == IF hasCompass
                  THEN [n1 EXCEPT !.compass_embedding = Linear(2, SensorEmbeddingDim),
                                  !.built = Append(@, "compass_embedding")]
                  ELSE n1
        IN  [n2 EXCEPT !.state_encoder =
                           build_rnn_state_encoder(size1, self.hidden_size,
                                                   rnn_type, num_recurrent_layers),
                       !.built = Append(@, "state_encoder")]

\* lines 299-324: the sensor embeddings and the state encoder
NetInitSensors(self, obs, rnn_type, num_recurrent_layers) ==
    LET hasGps     == GpsUuid \in DOMAIN obs
        hasCompass == CompassUuid \in DOMAIN obs
        size0 == output_dims(self.goal_encoder) + self.n_prev_action
        n1 == IF hasGps
              THEN [self EXCEPT !.gps_embedding =
                                   Linear(obs[GpsUuid].shape[1], SensorEmbeddingDim),
                               !.built = Append(@, "gps_embedding")]
              ELSE self
        size1 == IF hasGps THEN size0 + SensorEmbeddingDim ELSE size0
    IN  IF hasCompass /\ obs[CompassUuid].shape[1] # 1
        THEN Raise(n1, "AssertionError")
        ELSE
        LET n2 == IF hasCompass
                  THEN [n1 EXCEPT !.compass_embedding = Linear(2, SensorEmbeddingDim),
                                  !.built = Append(@, "compass_embedding")]
                  ELSE n1
            size2 == IF hasCompass THEN size1 + SensorEmbeddingDim ELSE size1
        IN  [n2 EXCEPT !.state_encoder =
                           build_rnn_state_encoder(size2, self.hidden_size,
                                                   rnn_type, num_recurrent_layers),
                       !.built = Append(@, "state_encoder")]

NetInit(obs, act, hidden_size, num_recurrent_layers, rnn_type, backbone, normalize_visual_inputs, device, env) ==
    LET s1 == [EmptyNet EXCEPT
                 !.hidden_size = hidden_size,
                 !.n_prev_action = NPrevAction,
                 !.prev_action_embedding = Embedding(act.n + 1, NPrevAction),
                 !.device = device,
                 !.built = <<"prev_action_embedding">>]
    IN  IF ObjectGoalUuid \notin DOMAIN obs THEN Raise(s1, "KeyError") ELSE
        LET ncat == obs[ObjectGoalUuid].high + 1
            s2 == [s1 EXCEPT
                     !.n_object_categories = ncat,
                     !.obj_categories_embedding = Embedding(ncat, ClassDims),
                     !.built = Append(@, "obj_categories_embedding")]
            ve == VisualEncoderDispatch(backbone, obs, normalize_visual_inputs,
                                        device, env)
            \* what the dispatch itself did: the class it called, or what it raised
            sd == [s2 EXCEPT !.dispatch =
                                 IF ve.cls # NoneValue THEN ve.cls ELSE ve.raised]
        IN  IF ve.raised # "none" THEN Raise(sd, ve.raised) ELSE
            LET s3 == [sd EXCEPT
                         !.visual_encoder = ve,
                         !.goal_encoder =
                             ResnetTensorGoalEncoderInit(ve.output_shape, ClassDims,
                                 DefaultHiddenOutDims, DefaultHiddenOutDims),
                         !.built = @ \o <<"visual_encoder", "goal_encoder">>]
            IN  NetInitSensors(s3, obs, rnn_type, num_recurrent_layers)

(***************************************************************************)
(* ObjGoalResNetPolicy.__init__: keyword arguments not passed take the     *)
(* signature's defaults; two assertions; then the network is built.        *)
(***************************************************************************)
PolicyDefaults ==
    [hidden_size |-> 512, num_recurrent_layers |-> 1, rnn_type |-> "GRU",
     resnet_baseplanes |-> 32, backbone |-> "resnet18",
     normalize_visual_inputs |-> FALSE, device |-> NoneValue]

Param(kwargs, name) ==
    IF name \in DOMAIN kwargs THEN kwargs[name] ELSE PolicyDefaults[name]

NoPolicy ==
    [kwargs |-> <<>>, raised |-> "none", net_started |-> FALSE,
     net |-> EmptyNet, dim_actions |-> 0]

\* the second assertion written with 'and' instead of 'or'
PolicyAssertionsPass_BothImages(obs) ==
    /\ ObjectGoalUuid \in DOMAIN obs
    /\ ("rgb" \in DOMAIN obs /\ "depth" \in DOMAIN obs)

\* lines 50-51
PolicyAssertionsPass(obs) ==
    /\ ObjectGoalUuid \in DOMAIN obs
    /\ ("rgb" \in DOMAIN obs \/ "depth" \in DOMAIN obs)

PolicyInit(kwargs, env) ==
    LET obs == kwargs.observation_space
        act == kwargs.action_space
    IN  IF ~PolicyAssertionsPass(obs)
        THEN [NoPolicy EXCEPT !.kwargs = kwargs, !.raised = "AssertionError"]
        ELSE
        LET made == NetInit(obs, act,
                           Param(kwargs, "hidden_size"),
                           Param(kwargs, "num_recurrent_layers"),
                           Param(kwargs, "rnn_type"),
                           Param(kwargs, "backbone"),
                           Param(kwargs, "normalize_visual_inputs"),
                           Param(kwargs, "device"), env)
        IN  [kwargs |-> kwargs, raised |-> made.raised, net_started |-> TRUE,
             net |-> made,
             dim_actions |-> IF made.raised = "none" THEN act.n ELSE 0]

\* lines 68-80
config_args(cfg, obs, act) ==
    [observation_space |-> obs,
     action_space |-> act,
     hidden_size |-> cfg.RL.PPO.hidden_size,
     rnn_type |-> cfg.RL.DDPPO.rnn_type,
     num_recurrent_layers |-> cfg.RL.DDPPO.num_recurrent_layers,
     backbone |-> cfg.RL.DDPPO.backbone,
     normalize_visual_inputs |-> ("rgb" \in DOMAIN obs)]

\* lines 82-86: cls(**cls.config_args(...))
from_config(cfg, obs, act, env) ==
    PolicyInit(config_args(cfg, obs, act), env)

\* from_config_device that forgets to pass the device on
from_config_device_DeviceDropped(cfg, obs, act, device, env) ==
    PolicyInit(config_args(cfg, obs, act), env)

\* lines 88-95: cls(**cls.config_args(...), device=device)
from_config_device(cfg, obs, act, device, env) ==
    PolicyInit(config_args(cfg, obs, act) @@ [device |-> device], env)


(***************************************************************************)
(* Forward pass, on tensor shapes.  A tensor is the sequence of its        *)
(* dimensions; observations maps each key present to its tensor.           *)
(***************************************************************************)
RECURSIVE Numel(_)
Numel(shape) == IF shape = <<>> THEN 1 ELSE Head(shape) * Numel(Tail(shape))

NoTensor == <<>>

\* ResnetTensorGoalEncoder.distribute_target, on shapes:
\* view(-1, class_dims, 1, 1).expand(-1, -1, H, W)
DistributeTargetShape(goal_encoder, target_emb) ==
    << Numel(target_emb) \div goal_encoder.class_dims,
       goal_encoder.class_dims,
       goal_encoder.resnet_tensor_shape[Len(goal_encoder.resnet_tensor_shape) - 1],
       goal_encoder.resnet_tensor_shape[Len(goal_encoder.resnet_tensor_shape)] >>

\* ResnetTensorGoalEncoder.forward, on shapes.  A 1x1 convolution keeps
\* batch and spatial dimensions and refuses a wrong channel count; cat along
\* dim 1 refuses tensors that differ in any other dimension.
GoalEncoderForward(goal_encoder, resnet_input, target_emb) ==
    LET fail == [raised |-> "RuntimeError", combiner_in |-> NoTensor,
                 out |-> NoTensor]
    IN  IF \/ Len(resnet_input) # 4
           \/ resnet_input[2] # goal_encoder.resnet_compressor[1].in_channels
        THEN fail
        ELSE
        LET compressed == << resnet_input[1],
                             goal_encoder.resnet_compressor[2].out_channels,
                             resnet_input[3], resnet_input[4] >>
        IN  IF Numel(target_emb) % goal_encoder.class_dims # 0 THEN fail ELSE
            LET target == DistributeTargetShape(goal_encoder, target_emb)
            IN  IF \/ target[1] # compressed[1]
                   \/ target[3] # compressed[3]
                   \/ target[4] # compressed[4]
                THEN fail
                ELSE
                LET cat == << compressed[1], compressed[2] + target[2],
                              compressed[3], compressed[4] >>
                IN  IF cat[2] # goal_encoder.target_obs_combiner[1].in_channels
                    THEN fail
                    ELSE
                    LET y == << cat[1],
                                goal_encoder.target_obs_combiner[2].out_channels,
                                cat[3], cat[4] >>
                    IN  [raised |-> "none", combiner_in |-> cat,
                         out |-> << y[1], y[2] * y[3] * y[4] >>]

\* torch.cat(x, dim=1) of a list of tensors: same rank, same other dimensions
RECURSIVE CatDim1(_)
CatDim1(x) ==
    IF Len(x) = 1 THEN [raised |-> "none", out |-> x[1]]
    ELSE LET rest == CatDim1(Tail(x))
             a == x[1]
         IN  IF rest.raised # "none" THEN rest
             ELSE IF \/ Len(a) # Len(rest.out)
                     \/ \E i \in 1..Len(a) : i # 2 /\ a[i] # rest.out[i]
             THEN [raised |-> "RuntimeError", out |-> NoTensor]
             ELSE [raised |-> "none",
                   out |-> [i \in 1..Len(a) |->
                               IF i = 2 THEN a[2] + rest.out[2] ELSE a[i]]]

\* Tensor.permute(0, 3, 1, 2) of a (B, H, W, C) tensor
PermuteToChannelsFirst(t) == <<t[1], t[4], t[2], t[3]>>

\* the channels of one (B, C, H, W) tensor, each written <<name, c>>
ChannelsOf(name, t) == [c \in 1..t[2] |-> <<name, c>>]

\* the channels torch.cat(cnn_input, dim=1) lines up (line 184): those of each
\* tensor appended to cnn_input, in the order of the appends (lines 174, 182)
RECURSIVE CnnChannels(_, _)
CnnChannels(names, cnn_input) ==
    IF cnn_input = <<>> THEN <<>>
    ELSE ChannelsOf(Head(names), Head(cnn_input))
             \o CnnChannels(Tail(names), Tail(cnn_input))

NoResNetEncoder == [constructed |-> FALSE, self |-> NoEncoder("none")]

NoEncoderCall ==
    [called |-> FALSE, raised |-> "none", cnn_input |-> <<>>,
     channels |-> <<>>, x |-> NoTensor, out |-> NoTensor]

\* ResNetEncoder.forward (lines 165-190), on shapes and channel layout.
\* self.backbone is the network make_backbone returned: it takes
\* input_channels channels and shrinks height and width by
\* final_spatial_compress; compression keeps height and width.  An image
\* too small for the pooling or the backbone to leave one row and one
\* column makes the layer raise RuntimeError.
ResNetEncoderForward(self, observations) ==
    LET rgb   == IF self.n_input_rgb > 0
                 THEN <<PermuteToChannelsFirst(observations["rgb"])>> ELSE <<>>
        depth == IF self.n_input_depth > 0
                 THEN <<PermuteToChannelsFirst(observations["depth"])>> ELSE <<>>
        cnn_input == rgb \o depth
        names == (IF self.n_input_rgb > 0 THEN <<"rgb / 255.0">> ELSE <<>>)
                     \o (IF self.n_input_depth > 0 THEN <<"depth">> ELSE <<>>)
        r0 == [NoEncoderCall EXCEPT !.called = TRUE, !.cnn_input = cnn_input]
    IN  IF cnn_input = <<>> THEN [r0 EXCEPT !.raised = "RuntimeError"] ELSE
        LET cat == CatDim1(cnn_input)
        IN  IF cat.raised # "none" THEN [r0 EXCEPT !.raised = cat.raised] ELSE
            LET r1 == [r0 EXCEPT !.x = cat.out, !.channels = CnnChannels(names, cnn_input)]
                pooled == <<cat.out[1], cat.out[2], cat.out[3] \div 2, cat.out[4] \div 2>>
                den == self.backbone.final_spatial_compress_den
            IN  IF pooled[3] < 1 \/ pooled[4] < 1
                   \/ pooled[2] # self.input_channels
                   \/ pooled[3] \div den < 1 \/ pooled[4] \div den < 1
                THEN [r1 EXCEPT !.raised = "RuntimeError"]
                ELSE [r1 EXCEPT !.out =
                         << pooled[1], self.output_shape[1],
                            pooled[3] \div den, pooled[4] \div den >>]

\* nn.Linear applied to a tensor: the last dimension must be in_features
LinearForward(layer, t) ==
    IF t[Len(t)] # layer.in_features THEN NoTensor
    ELSE [i \in 1..Len(t) |-> IF i = Len(t) THEN layer.out_features ELSE t[i]]

\* tensor.squeeze(dim=1) of a rank-3 tensor
SqueezeDim1(t) == IF t[2] = 1 THEN <<t[1], t[3]>> ELSE t

\* the index without the shift that frees row 0 for the start token
PrevActionIndex_NoShift(prev_actions, masks) ==
    [b \in 1..Len(prev_actions) |->
        IF masks[b] THEN prev_actions[b] ELSE 0]

\* torch.where(masks.view(-1), prev_actions + 1, start_token)
PrevActionIndex(prev_actions, masks) ==
    [b \in 1..Len(prev_actions) |->
        IF masks[b] THEN prev_actions[b] + 1 ELSE 0]

\* the stack with the sine placed before the cosine
CompassStack_SinFirst(shape) ==
    [shape |-> shape \o <<2>>,
     flat |-> [p \in 1..(2 * Numel(shape)) |->
                  <<IF p % 2 = 1 THEN "sin" ELSE "cos", <<"compass", (p + 1) \div 2>>>>]]

\* torch.stack([torch.cos(o), torch.sin(o)], -1) of the compass observation
\* o of the given shape, whose element at row-major position p is written
\* <<"compass", p>>: a new last dimension of size 2, shape and contents
CompassStack(shape) ==
    [shape |-> shape \o <<2>>,
     flat |-> [p \in 1..(2 * Numel(shape)) |->
                  <<IF p % 2 = 1 THEN "cos" ELSE "sin", <<"compass", (p + 1) \div 2>>>>]]

\* whether __init__ assigned the attribute (nn.Module raises AttributeError
\* for a sub-module that was never assigned)
HasAttr(self, name) == \E i \in 1..Len(self.built) : self.built[i] = name

\* encoder_inputs lists what each call of the visual encoder was given;
\* state_encoder_in is the argument tuple of the state encoder call (line 385)
\* and returned what forward returns (line 389), both empty until reached
FwdResult(self, observations, rnn_hidden_states, prev_actions, masks) ==
    [called |-> TRUE,
     observations |-> observations, rnn_hidden_states |-> rnn_hidden_states,
     prev_actions |-> prev_actions,
     masks |-> masks, raised |-> "none", encoder_calls |-> 0,
     encoder_inputs |-> <<>>,
     visual_feats |-> NoTensor, combiner_in |-> NoTensor,
     x |-> <<>>, used |-> {}, index |-> <<>>, rnn_input |-> NoTensor,
     compass_in |-> [shape |-> NoTensor, flat |-> <<>>],
     state_encoder_in |-> <<>>, returned |-> <<>>]

NoFwd == [FwdResult(EmptyNet, <<>>, NoneValue, <<>>, <<>>) EXCEPT !.called = FALSE]

\* the imported RNNStateEncoder called on (x, hidden_states, masks): it
\* returns a pair (output, new hidden states), each a function of all three
\* arguments, written <<name, arguments>>
StateEncoderCall(x, hidden_states, masks) ==
    << <<"state_encoder output", <<x, hidden_states, masks>>>>,
       <<"state_encoder hidden states", <<x, hidden_states, masks>>>> >>

\* lines 359-374: the compass and GPS embeddings appended to x
ForwardSensors(self, r) ==
    LET obs == r.observations
        hasCompass == CompassUuid \in DOMAIN obs
        hasGps == GpsUuid \in DOMAIN obs
        compass_observations == CompassStack(obs[CompassUuid])
        c_in == SqueezeDim1(compass_observations.shape)
        c_out == LinearForward(self.compass_embedding, c_in)
        g_out == LinearForward(self.gps_embedding, obs[GpsUuid])
    IN  IF hasCompass /\ ~HasAttr(self, "compass_embedding")
        THEN [r EXCEPT !.raised = "AttributeError"]
        ELSE IF hasCompass /\ c_out = NoTensor
        THEN [r EXCEPT !.raised = "RuntimeError",
                       !.used = @ \cup {"compass_embedding"}]
        ELSE
        LET r1 == IF hasCompass
                  THEN [r EXCEPT !.x = Append(@, c_out),
                                 !.used = @ \cup {"compass_embedding"},
                                 !.compass_in = [shape |-> c_in,
                                                 flat |-> compass_observations.flat]]
                  ELSE r
        IN  IF hasGps /\ ~HasAttr(self, "gps_embedding")
            THEN [r1 EXCEPT !.raised = "AttributeError"]
            ELSE IF hasGps /\ g_out = NoTensor
            THEN [r1 EXCEPT !.raised = "RuntimeError",
                            !.used = @ \cup {"gps_embedding"}]
            ELSE IF hasGps
            THEN [r1 EXCEPT !.x = Append(@, g_out),
                            !.used = @ \cup {"gps_embedding"}]
            ELSE r1

\* lines 376-389: previous action, concatenation, state encoder
ForwardTail(self, r) ==
    LET B == Len(r.prev_actions)
        index == PrevActionIndex(r.prev_actions, r.masks)
        r1 == [r EXCEPT !.index = index,
                        !.used = @ \cup {"prev_action_embedding"}]
    \* nn.Embedding refuses a row outside 0..num_embeddings-1
    IN  IF \E b \in 1..B : \/ index[b] < 0
                            \/ index[b] >= self.prev_action_embedding.num_embeddings
        THEN [r1 EXCEPT !.raised = "IndexError"]
        ELSE
        LET x == Append(r.x, <<B, self.prev_action_embedding.embedding_dim>>)
            cat == CatDim1(x)
        IN  IF cat.raised # "none"
            THEN [r1 EXCEPT !.x = x, !.raised = cat.raised]
            ELSE
            LET r2 == [r1 EXCEPT !.x = x, !.rnn_input = cat.out,
                                 !.used = @ \cup {"state_encoder"},
                                 !.state_encoder_in =
                                     <<cat.out, r.rnn_hidden_states, r.masks>>]
            IN  IF cat.out[2] # self.state_encoder.input_size
                THEN [r2 EXCEPT !.raised = "RuntimeError"]
                ELSE [r2 EXCEPT !.returned =
                         StateEncoderCall(cat.out, r.rnn_hidden_states, r.masks)]

\* self.visual_encoder(observations): the ResNetEncoder of this file, or the
\* imported CLIP encoder, which returns a batch of its declared output_shape
VisualEncoderCall(self, observations, B) ==
    IF self.visual_encoder.cls = "ResNetEncoder"
    THEN LET e == ResNetEncoderForward(self.visual_encoder, observations)
         IN  [raised |-> e.raised, feats |-> e.out, calls |-> 1,
              inputs |-> <<observations>>]
    ELSE [raised |-> "none", feats |-> <<B>> \o self.visual_encoder.output_shape,
          calls |-> 1, inputs |-> <<observations>>]

\* the encoder run even when the observations hold 'visual_features'
VisualFeatures_EncoderAlways(self, observations, B) ==
    VisualEncoderCall(self, observations, B)

\* lines 349-352
VisualFeatures(self, observations, B) ==
    IF "visual_features" \in DOMAIN observations
    THEN [raised |-> "none", feats |-> observations["visual_features"], calls |-> 0,
          inputs |-> <<>>]
    ELSE VisualEncoderCall(self, observations, B)

\* ObjGoalResNetNet.forward (lines 340-389)
NetForward(self, observations, rnn_hidden_states, prev_actions, masks) ==
    LET r0 == FwdResult(self, observations, rnn_hidden_states, prev_actions, masks)
        B == Len(prev_actions)
        v == VisualFeatures(self, observations, B)
        visual_feats == v.feats
        r1 == [r0 EXCEPT !.visual_feats = visual_feats,
                         !.encoder_calls = v.calls,
                         !.encoder_inputs = v.inputs,
                         !.used = IF v.calls = 0 THEN {} ELSE {"visual_encoder"}]
        \* obj_categories_embedding of a (B, 1) long tensor: (B, 1, class_dims)
        target_emb == observations[ObjectGoalUuid]
                          \o <<self.obj_categories_embedding.embedding_dim>>
        g == GoalEncoderForward(self.goal_encoder, visual_feats, target_emb)
        \* lines 355-356 call both sub-modules; the goal encoder may then raise
        rg == [r1 EXCEPT !.used = @ \cup {"obj_categories_embedding",
                                          "goal_encoder"}]
    IN  IF v.raised # "none" THEN [r1 EXCEPT !.raised = v.raised] ELSE
        IF g.raised # "none" THEN [rg EXCEPT !.raised = g.raised] ELSE
        LET r2 == [rg EXCEPT !.combiner_in = g.combiner_in,
                             !.x = <<g.out>>]
            r3 == ForwardSensors(self, r2)
        IN  IF r3.raised # "none" THEN r3 ELSE ForwardTail(self, r3)

(***************************************************************************)
(* Tensors with contents: shape and the row-major (contiguous) sequence of *)
(* the elements.  Indices are 1-based.                                     *)
(***************************************************************************)
Tensor(shape, flat) == [shape |-> shape, flat |-> flat]

RECURSIVE Offset(_, _)
Offset(idx, shape) ==
    IF idx = <<>> THEN 0
    ELSE (idx[1] - 1) * Numel(Tail(shape)) + Offset(Tail(idx), Tail(shape))

At(t, idx) == t.flat[Offset(idx, t.shape) + 1]

RECURSIVE Unravel(_, _)
Unravel(p, shape) ==
    IF shape = <<>> THEN <<>>
    ELSE LET n == Numel(Tail(shape))
         IN  <<(p \div n) + 1>> \o Unravel(p % n, Tail(shape))

\* Tensor.view(-1, d2, d3, d4): the same elements, the first dimension inferred
View4(t, d2, d3, d4) ==
    Tensor(<<Numel(t.shape) \div (d2 * d3 * d4), d2, d3, d4>>, t.flat)

\* Tensor.expand(-1, -1, H, W) of a (N, C, 1, 1) tensor
Expand4(t, H, W) ==
    LET shape == <<t.shape[1], t.shape[2], H, W>>
    IN  Tensor(shape, [p \in 1..Numel(shape) |->
                          LET idx == Unravel(p - 1, shape)
                          IN  At(t, <<idx[1], idx[2], 1, 1>>)])

\* torch.cat([a, b], dim=1) of two rank-4 tensors
Cat4(a, b) ==
    LET shape == <<a.shape[1], a.shape[2] + b.shape[2], a.shape[3], a.shape[4]>>
    IN  Tensor(shape, [p \in 1..Numel(shape) |->
                          LET idx == Unravel(p - 1, shape)
                          IN  IF idx[2] <= a.shape[2] THEN At(a, idx)
                              ELSE At(b, <<idx[1], idx[2] - a.shape[2],
                                           idx[3], idx[4]>>)])

\* An nn.Sequential of 1x1 convolutions and ReLUs with learned weights: output
\* channel o at a cell is an (uninterpreted) function of the input channels at
\* that cell, written <<name, o, channel vector>>.
Pointwise(name, t, out_channels) ==
    LET shape == <<t.shape[1], out_channels, t.shape[3], t.shape[4]>>
    IN  Tensor(shape, [p \in 1..Numel(shape) |->
                          LET idx == Unravel(p - 1, shape)
                          IN  <<name, idx[2],
                                [c \in 1..t.shape[2] |->
                                    At(t, <<idx[1], c, idx[3], idx[4]>>)]>>])

\* x.reshape(x.size(0), -1)
Flatten1(t) == Tensor(<<t.shape[1], Numel(t.shape) \div t.shape[1]>>, t.flat)

\* ResnetTensorGoalEncoder.distribute_target (lines 231-234)
distribute_target(self, target_emb) ==
    Expand4(View4(target_emb, self.class_dims, 1, 1),
            self.resnet_tensor_shape[Len(self.resnet_tensor_shape) - 1],
            self.resnet_tensor_shape[Len(self.resnet_tensor_shape)])

\* the list with the target placed before the compressed features
GoalEmbs_TargetFirst(self, resnet_input, target_emb) ==
    << distribute_target(self, target_emb),
       Pointwise("resnet_compressor", resnet_input,
                 self.resnet_compressor[2].out_channels) >>

\* lines 237-240: embs = [resnet_compressor(resnet_input), distribute_target(...)]
GoalEmbs(self, resnet_input, target_emb) ==
    << Pointwise("resnet_compressor", resnet_input,
                 self.resnet_compressor[2].out_channels),
       distribute_target(self, target_emb) >>

NoGoalCall ==
    [called |-> FALSE, resnet_input |-> Tensor(<<>>, <<>>),
     target_emb |-> Tensor(<<>>, <<>>), raised |-> "none",
     embs |-> <<>>, combiner_in |-> Tensor(<<>>, <<>>),
     out |-> Tensor(<<>>, <<>>)]

\* ResnetTensorGoalEncoder.forward (lines 236-244), with contents
GoalEncoderForwardValues(self, resnet_input, target_emb) ==
    LET r0 == [NoGoalCall EXCEPT !.called = TRUE, !.resnet_input = resnet_input,
                                 !.target_emb = target_emb]
        fail == [r0 EXCEPT !.raised = "RuntimeError"]
    IN  IF \/ Len(resnet_input.shape) # 4
           \/ resnet_input.shape[2] # self.resnet_compressor[1].in_channels
           \/ Numel(target_emb.shape) % self.class_dims # 0
        THEN fail
        ELSE
        LET embs == GoalEmbs(self, resnet_input, target_emb)
        IN  IF \/ embs[1].shape[1] # embs[2].shape[1]
               \/ embs[1].shape[3] # embs[2].shape[3]
               \/ embs[1].shape[4] # embs[2].shape[4]
            THEN [fail EXCEPT !.embs = embs]
            ELSE
            LET cat == Cat4(embs[1], embs[2])
            IN  IF cat.shape[2] # self.target_obs_combiner[1].in_channels
                THEN [fail EXCEPT !.embs = embs, !.combiner_in = cat]
                ELSE [r0 EXCEPT
                        !.embs = embs,
                        !.combiner_in = cat,
                        !.out = Flatten1(Pointwise("target_obs_combiner", cat,
                                    self.target_obs_combiner[2].out_channels))]

(***************************************************************************)
(* linear_probe.py.  target_objects and max_forward_steps come from the    *)
(* constants module; the model fixes small values for them.                *)
(***************************************************************************)
NumTargetObjects == 3
max_forward_steps == 2
NumPickupableOutputs == 110
ConvChannels == 2048
AvgpoolDim == 2048
AttnpoolDim == 1024

EmbeddingTypes ==
    {"rn50_imagenet_conv", "rn50_imagenet_avgpool", "clip_conv",
     "clip_attnpool", "clip_avgpool"}

PredictionTypes ==
    {"object_presence", "object_presence_grid", "valid_moves_forward",
     "valid_moves_forward_cls", "pickupable_objects"}

NoModel == [kind |-> NoneValue, input_dim |-> 0, output_dim |-> 0,
            act_fn |-> NoneValue]

NoLinearEncoder ==
    [constructed |-> FALSE, raised |-> "none",
     hparams |-> [embedding_type |-> NoneValue, prediction_type |-> NoneValue],
     model |-> NoModel]

\* lines 103-127 with the third prediction-type branch reading the wrong width
LinearHead_AttnpoolWide(embedding_type, prediction_type) ==
    [kind |-> "linear",
     input_dim |-> AvgpoolDim,
     output_dim |->
         IF prediction_type = "object_presence" THEN NumTargetObjects
         ELSE IF prediction_type = "valid_moves_forward" THEN 1
         ELSE IF prediction_type = "valid_moves_forward_cls"
         THEN max_forward_steps + 1
         ELSE NumPickupableOutputs,
     act_fn |->
         IF prediction_type = "valid_moves_forward" THEN "ReLU"
         ELSE IF prediction_type = "valid_moves_forward_cls" THEN "Softmax"
         ELSE "Sigmoid"]

\* lines 106-127: nn.Sequential(nn.Linear(input_dim, output_dim), act_fn)
LinearHead(embedding_type, prediction_type) ==
    [kind |-> "linear",
     input_dim |->
         IF embedding_type \in {"rn50_imagenet_avgpool", "clip_avgpool"}
         THEN AvgpoolDim ELSE AttnpoolDim,
     output_dim |->
         IF prediction_type = "object_presence" THEN NumTargetObjects
         ELSE IF prediction_type = "valid_moves_forward" THEN 1
         ELSE IF prediction_type = "valid_moves_forward_cls"
         THEN max_forward_steps + 1
         ELSE NumPickupableOutputs,
     act_fn |->
         IF prediction_type = "valid_moves_forward" THEN "ReLU"
         ELSE IF prediction_type = "valid_moves_forward_cls" THEN "Softmax"
         ELSE "Sigmoid"]

\* lines 96-101: pooling to 3x3, a 1x1 convolution, flatten, sigmoid
GridHead ==
    [kind |-> "grid", input_dim |-> ConvChannels,
     output_dim |-> NumTargetObjects, act_fn |-> "Sigmoid"]

\* LinearEncoder.__init__ (lines 90-129)
LinearEncoderInit(embedding_type, prediction_type) ==
    LET self == [NoLinearEncoder EXCEPT
                    !.constructed = TRUE,
                    !.hparams = [embedding_type |-> embedding_type,
                                 prediction_type |-> prediction_type]]
    IN  IF prediction_type = "object_presence_grid"
        THEN IF embedding_type \in {"rn50_imagenet_conv", "clip_conv"}
             THEN [self EXCEPT !.model = GridHead]
             ELSE [self EXCEPT !.raised = "AssertionError"]
        ELSE IF prediction_type \in {"object_presence", "valid_moves_forward",
                                     "valid_moves_forward_cls", "pickupable_objects"}
        THEN IF embedding_type \in {"rn50_imagenet_avgpool", "clip_avgpool",
                                    "clip_attnpool"}
             THEN [self EXCEPT !.model = LinearHead(embedding_type, prediction_type)]
             ELSE [self EXCEPT !.raised = "AssertionError"]
        ELSE [self EXCEPT !.raised = "NotImplementedError"]

\* the labels left as they are
ClampLabels_Unclamped(y) == y

\* y[y > max_forward_steps] = max_forward_steps (line 142)
ClampLabels(y) ==
    [b \in 1..Len(y) |-> IF y[b] > max_forward_steps THEN max_forward_steps ELSE y[b]]

\* F.one_hot(y, num_classes): row b has a 1 at class y[b] (0-based) and refuses
\* a label outside 0..num_classes-1
OneHot(y, num_classes) ==
    [b \in 1..Len(y) |-> [k \in 1..num_classes |-> IF k = y[b] + 1 THEN 1 ELSE 0]]

\* lines 137-146: what the label becomes before the loss
PrepareLabels(prediction_type, y) ==
    IF prediction_type = "valid_moves_forward_cls"
    THEN IF \E b \in 1..Len(y) : ClampLabels(y)[b] < 0
         THEN [raised |-> "RuntimeError", y |-> ClampLabels(y)]
         ELSE [raised |-> "none",
               y |-> OneHot(ClampLabels(y), max_forward_steps + 1)]
    ELSE IF prediction_type = "valid_moves_forward"
    THEN [raised |-> "none", y |-> [b \in 1..Len(y) |-> <<y[b]>>]]
    ELSE [raised |-> "none", y |-> y]

\* the loss selection with the mean-squared-error branch forgotten
LossFunction_NoRegression(prediction_type) ==
    IF prediction_type \in {"object_presence", "object_presence_grid",
                            "valid_moves_forward_cls"}
    THEN "cross_entropy"
    ELSE IF prediction_type = "pickupable_objects" THEN "binary_cross_entropy"
    ELSE "unbound"

\* lines 155-161: which loss is assigned; "unbound" when no branch runs
LossFunction(prediction_type) ==
    IF prediction_type \in {"object_presence", "object_presence_grid",
                            "valid_moves_forward_cls"}
    THEN "cross_entropy"
    ELSE IF prediction_type = "valid_moves_forward" THEN "mse_loss"
    ELSE IF prediction_type = "pickupable_objects" THEN "binary_cross_entropy"
    ELSE "unbound"

\* lines 166-175: the metrics dict, keyed by metric name, holding which
\* function computed it
Metrics(prediction_type) ==
    IF prediction_type \in {"object_presence", "object_presence_grid"}
    THEN [accuracy |-> "f1"]
    ELSE IF prediction_type = "valid_moves_forward"
    THEN [accuracy |-> "mean_absolute_error"]
    ELSE IF prediction_type = "valid_moves_forward_cls"
    THEN [accuracy |-> "mean_hit_at_true_class"]
    ELSE IF prediction_type = "pickupable_objects"
    THEN [accuracy |-> "mean_threshold_match"]
    ELSE <<>>

\* line 142 assigns into the label tensor of the batch it was handed, so the
\* caller's batch holds the clamped labels after the call (also when one_hot
\* then refuses a negative label); the other branches rebind the local y
BatchAfter(prediction_type, batch) ==
    IF prediction_type = "valid_moves_forward_cls"
    THEN [batch EXCEPT !.y = ClampLabels(@)]
    ELSE batch

\* LinearEncoder.compute_loss (lines 134-177).  returned is the tuple of what
\* the call returns: <<"loss">> or <<"loss", "metrics">>; y is the local
\* label tensor handed to the loss; batch is the caller's batch after the call.
compute_loss(self, batch, eval) ==
    LET pt == self.hparams.prediction_type
        prepared == PrepareLabels(pt, batch.y)
        base == [raised |-> "none", y |-> prepared.y, loss |-> NoneValue,
                 returned |-> <<>>, metrics |-> <<>>,
                 batch |-> BatchAfter(pt, batch)]
    IN  IF prepared.raised # "none"
        THEN [base EXCEPT !.raised = prepared.raised]
        ELSE IF LossFunction(pt) = "unbound"
        THEN [base EXCEPT !.raised = "UnboundLocalError"]
        ELSE IF eval = FALSE
        THEN [base EXCEPT !.loss = LossFunction(pt), !.returned = <<"loss">>]
        ELSE [base EXCEPT !.loss = LossFunction(pt),
                          !.returned = <<"loss", "metrics">>,
                          !.metrics = Metrics(pt)]

\* given is the batch as it was handed to the step, batch the same object
\* once the step is over
NoStep == [name |-> "none", given |-> [y |-> <<>>], batch |-> [y |-> <<>>],
           eval |-> FALSE,
           result |-> [raised |-> "none", y |-> <<>>, loss |-> NoneValue,
                       returned |-> <<>>, metrics |-> <<>>,
                       batch |-> [y |-> <<>>]],
           raised |-> "none", logged |-> {}, returns |-> NoneValue]

\* training_step (lines 179-182): compute_loss(batch), log, return the loss
training_step(self, batch) ==
    LET r == compute_loss(self, batch, FALSE)
        st == [NoStep EXCEPT !.name = "training_step", !.given = batch,
                             !.batch = r.batch,
                             !.eval = FALSE, !.result = r]
    IN  IF r.raised # "none" THEN [st EXCEPT !.raised = r.raised]
        ELSE [st EXCEPT !.logged = {"train_loss"}, !.returns = r.loss]

\* validation_step / test_step (lines 184-194): unpack (loss, metrics) from
\* compute_loss(batch, eval=True), log the loss and metrics['accuracy']
EvalStep(self, batch, name, prefix) ==
    LET r == compute_loss(self, batch, TRUE)
        st == [NoStep EXCEPT !.name = name, !.given = batch,
                             !.batch = r.batch,
                             !.eval = TRUE, !.result = r]
    IN  IF r.raised # "none" THEN [st EXCEPT !.raised = r.raised]
        ELSE IF Len(r.returned) # 2 THEN [st EXCEPT !.raised = "TypeError"]
        ELSE IF "accuracy" \notin DOMAIN r.metrics
        THEN [st EXCEPT !.raised = "KeyError", !.logged = {prefix \o "_loss"}]
        ELSE [st EXCEPT !.logged = {prefix \o "_loss", prefix \o "_acc"},
                        !.returns = r.loss]

validation_step(self, batch) == EvalStep(self, batch, "validation_step", "val")
test_step(self, batch) == EvalStep(self, batch, "test_step", "test")

(***************************************************************************)
(* THOREmbeddingsDataset (lines 14-47).  The files it loads are inputs:    *)
(*   scenes: the dict of {split}.pt in insertion order, a sequence of      *)
(*           [name, frames], each frame a dict from embedding and          *)
(*           prediction names to values;                                   *)
(*   records: the list of (image, obj, pickupable) tuples of {split}.pkl;  *)
(*   image_features: image -> embedding name -> value.                     *)
(***************************************************************************)
FrameKeys ==
    EmbeddingTypes \cup {"object_presence", "object_presence_grid",
                         "valid_moves_forward"}

\* the features stored for frame id: under each key, that key's value for id
Frame(id) == [k \in FrameKeys |-> <<k, id>>]

ImageFeatures(images) ==
    [im \in images |-> [k \in EmbeddingTypes |-> <<k, im>>]]

EmptyDataset ==
    [constructed |-> FALSE, raised |-> "none",
     embeddings |-> <<>>, predictions |-> <<>>]

\* the inner loop (lines 39-41) over one scene's frames: line 40 appends the
\* embedding before line 41 looks the label up
RECURSIVE AppendFrames(_, _, _, _)
AppendFrames(self, frames, embedding_type, prediction_type) ==
    IF frames = <<>> \/ self.raised # "none" THEN self
    ELSE IF embedding_type \notin DOMAIN Head(frames)
    THEN [self EXCEPT !.raised = "KeyError"]
    ELSE IF prediction_type \notin DOMAIN Head(frames)
    THEN [self EXCEPT !.embeddings = Append(@, Head(frames)[embedding_type]),
                      !.raised = "KeyError"]
    ELSE AppendFrames(
             [self EXCEPT !.embeddings = Append(@, Head(frames)[embedding_type]),
                          !.predictions = Append(@, Head(frames)[prediction_type])],
             Tail(frames), embedding_type, prediction_type)

\* the outer loop (line 38) over data.items()
RECURSIVE AppendScenes(_, _, _, _)
AppendScenes(self, scenes, embedding_type, prediction_type) ==
    IF scenes = <<>> \/ self.raised # "none" THEN self
    ELSE AppendScenes(
             AppendFrames(self, Head(scenes).frames, embedding_type, prediction_type),
             Tail(scenes), embedding_type, prediction_type)

\* the loop (lines 24-29) over the (image, obj, pickupable) tuples
RECURSIVE AppendRecords(_, _, _, _)
AppendRecords(self, records, image_features, embedding_type) ==
    IF records = <<>> \/ self.raised # "none" THEN self
    ELSE LET image == Head(records)[1]
             obj == Head(records)[2]
             pickupable == Head(records)[3]
         IN  IF \/ image \notin DOMAIN image_features
                \/ embedding_type \notin DOMAIN image_features[image]
             THEN [self EXCEPT !.raised = "KeyError"]
             ELSE AppendRecords(
                      [self EXCEPT
                         !.embeddings = Append(@, image_features[image][embedding_type]),
                         !.predictions = Append(@, <<obj, IF pickupable THEN 1 ELSE 0>>)],
                      Tail(records), image_features, embedding_type)

\* lines 33-34 without the renaming of 'valid_moves_forward_cls'
LabelKey_NotRenamed(prediction_type) == prediction_type

\* lines 33-34: the key the labels are read under
LabelKey(prediction_type) ==
    IF prediction_type = "valid_moves_forward_cls" THEN "valid_moves_forward"
    ELSE prediction_type

\* THOREmbeddingsDataset.__init__ (lines 17-41)
THOREmbeddingsDatasetInit(input) ==
    LET self == [EmptyDataset EXCEPT !.constructed = TRUE]
    IN  IF input.prediction_type = "pickupable_objects"
        THEN AppendRecords(self, input.records, input.image_features,
                           input.embedding_type)
        ELSE AppendScenes(self, input.scenes, input.embedding_type,
                          LabelKey(input.prediction_type))

\* __len__ (lines 46-47)
dataset_len(self) == Len(self.embeddings)

\* list[index] of a Python list: indices -len..len-1 are accepted, a negative
\* one counting from the end; the result is the 1-based position, 0 when the
\* list raises IndexError
ListPosition(list, index) ==
    IF index \in 0..(Len(list) - 1) THEN index + 1
    ELSE IF index \in (0 - Len(list))..(0 - 1) THEN Len(list) + index + 1
    ELSE 0

\* __getitem__ (lines 43-44): self.embeddings[index], self.predictions[index]
dataset_getitem(self, index) ==
    LET e == ListPosition(self.embeddings, index)
        p == ListPosition(self.predictions, index)
    IN  IF e # 0 /\ p # 0
        THEN [called |-> TRUE, index |-> index, raised |-> "none",
              value |-> <<self.embeddings[e], self.predictions[p]>>]
        ELSE [called |-> TRUE, index |-> index, raised |-> "IndexError",
              value |-> <<>>]

NoItem == [called |-> FALSE, index |-> 0, raised |-> "none", value |-> <<>>]

NoThorInput ==
    [prediction_type |-> NoneValue, embedding_type |-> NoneValue,
     scenes |-> <<>>, records |-> <<>>, image_features |-> <<>>]

(***************************************************************************)
(* minigrid_offpolicy_tutorial.py: the experiment class and the arguments  *)
(* its training_pipeline hands to the inherited cls._training_pipeline.    *)
(* The base class, the losses and the storages are imported; the model     *)
(* keeps what this file passes to them.                                    *)
(***************************************************************************)
TotalEpisodesInEpoch == 1000000

\* os.path.join(a, b) for a relative b
PathJoin(a, b) ==
    IF a = "" THEN b
    ELSE IF SubSeq(a, Len(a), Len(a)) = "/" THEN a \o b
    ELSE a \o "/" \o b

\* the file name with the two cases exchanged
DatasetFileName_Exchanged(cuda_available) ==
    "BabyAI-GoToLocal-v0" \o (IF cuda_available THEN "-small" ELSE "") \o ".pkl"

\* "BabyAI-GoToLocal-v0{}.pkl".format("" if cuda else "-small")
DatasetFileName(cuda_available) ==
    "BabyAI-GoToLocal-v0" \o (IF cuda_available THEN "" ELSE "-small") \o ".pkl"

\* GPU_ID = 0 if torch.cuda.is_available() else None
GpuId(cuda_available) == IF cuda_available THEN 0 ELSE NoneValue

NoExperimentConfig == [defined |-> FALSE]

\* the class statement: the attributes of the base class, the environment
\* the module is imported in, and the attributes the class body assigns.
\* cuda_available is what torch.cuda.is_available() answers in the process
\* that imports the module; the class body reads it at line 129 for GPU_ID.
ExperimentConfigClass(base, cuda_available, trajectories_dir) ==
    [defined |-> TRUE,
     cuda_available |-> cuda_available,
     BABYAI_EXPERT_TRAJECTORIES_DIR |-> trajectories_dir,
     TOTAL_IL_TRAIN_STEPS |-> base.TOTAL_IL_TRAIN_STEPS,
     NUM_TRAIN_SAMPLERS |-> base.NUM_TRAIN_SAMPLERS,
     ROLLOUT_STEPS |-> base.ROLLOUT_STEPS,
     INSTR_LEN |-> base.INSTR_LEN,
     ppo |-> base.ppo,
     DATASET |-> NoneValue,
     GPU_ID |-> GpuId(cuda_available)]

tag == "BabyAIGoToLocalBCOffPolicy"

METRIC_ACCUMULATE_INTERVAL == 1

TrainingSettings_RepeatsOnly(num_mini_batch, update_repeats) ==
    [update_repeats |-> update_repeats, num_mini_batch |-> 1]

\* TrainingSettings(update_repeats=num_mini_batch * update_repeats,
\*                  num_mini_batch=1)
OffPolicyTrainingSettings(num_mini_batch, update_repeats) ==
    [update_repeats |-> num_mini_batch * update_repeats, num_mini_batch |-> 1]

OffPolicyComponent_UnknownStorage(num_mini_batch, update_repeats) ==
    [uuid |-> "offpolicy",
     storage_uuid |-> "offpolicy",
     loss_names |-> <<"offpolicy_expert_ce_loss">>,
     training_settings |-> OffPolicyTrainingSettings(num_mini_batch, update_repeats)]

OffPolicyComponent(num_mini_batch, update_repeats) ==
    [uuid |-> "offpolicy",
     storage_uuid |-> "minigrid_offpolicy_expert",
     loss_names |-> <<"offpolicy_expert_ce_loss">>,
     training_settings |-> OffPolicyTrainingSettings(num_mini_batch, update_repeats)]

NoPipeline == [called |-> FALSE]

\* training_pipeline(cls): the keyword arguments of cls._training_pipeline.
\* Line 161 asks torch.cuda.is_available() again; cuda_available is what it
\* answers at this call (the class attribute GPU_ID is not consulted).
training_pipeline(cls, cuda_available) ==
    LET total_train_steps == cls.TOTAL_IL_TRAIN_STEPS
        ppo_info == cls.ppo
        num_mini_batch == ppo_info.num_mini_batch
        update_repeats == ppo_info.update_repeats
    IN  [called |-> TRUE,
         cuda_available |-> cuda_available,
         named_losses |->
             [k \in {"offpolicy_expert_ce_loss"} |->
                 [class |-> "MiniGridOffPolicyExpertCELoss",
                  total_episodes_in_epoch |-> TotalEpisodesInEpoch]],
         named_storages |->
             [k \in {"onpolicy", "minigrid_offpolicy_expert"} |->
                 IF k = "onpolicy"
                 THEN [class |-> "RolloutBlockStorage"]
                 ELSE [class |-> "MiniGridExpertTrajectoryStorage",
                       data_path |-> PathJoin(cls.BABYAI_EXPERT_TRAJECTORIES_DIR,
                                              DatasetFileName(cuda_available)),
                       num_samplers |-> cls.NUM_TRAIN_SAMPLERS,
                       rollout_len |-> cls.ROLLOUT_STEPS,
                       instr_len |-> cls.INSTR_LEN]],
         pipeline_stages |->
             << [loss_names |-> <<"offpolicy_expert_ce_loss">>,
                 max_stage_steps |-> total_train_steps,
                 stage_components |->
                     << OffPolicyComponent(num_mini_batch, update_repeats) >>] >>,
         num_mini_batch |-> 0,
         update_repeats |-> 0,
         total_train_steps |-> total_train_steps]

(***************************************************************************)
(* The construction state machine: the program holds an observation space, *)
(* an action space and a configuration, and calls the class's entry points.*)
(***************************************************************************)
NoOp == [name |-> "none", device |-> NoneValue]

InitPolicy ==
    /\ observation_space \in ObservationSpaces
    /\ action_space \in ActionSpaces
    /\ config \in Configs
    /\ op = NoOp
    /\ args = NoneValue
    /\ policy = NoPolicy
    /\ net = EmptyNet
    /\ fwd = NoFwd
    /\ tensor_goal_encoder = NoGoalEncoder
    /\ goal_call = NoGoalCall
    /\ linear_encoder = NoLinearEncoder /\ step = NoStep
    /\ thor_input = NoThorInput /\ dataset = EmptyDataset /\ item = NoItem
    /\ torch_cuda_is_available = FALSE
    /\ experiment_config = NoExperimentConfig /\ pipeline = NoPipeline
    /\ resnet_encoder = NoResNetEncoder /\ encoder_call = NoEncoderCall

ConfigArgs ==
    /\ args' = config_args(config, observation_space, action_space)
    /\ op' = [name |-> "config_args", device |-> NoneValue]
    /\ UNCHANGED <<observation_space, action_space, config, policy>>
    /\ UNCHANGED <<forwardVars, goalVars, probeVars, datasetVars, tutorialVars, encoderVars>>

FromConfig ==
    \E env \in Envs :
        /\ policy' = from_config(config, observation_space, action_space, env)
        /\ op' = [name |-> "from_config", device |-> NoneValue]
        /\ UNCHANGED <<observation_space, action_space, config, args>>
        /\ UNCHANGED <<forwardVars, goalVars, probeVars, datasetVars, tutorialVars, encoderVars>>

FromConfigDevice ==
    \E device \in Devices, env \in Envs :
        /\ policy' = from_config_device(config, observation_space, action_space,
                                         device, env)
        /\ op' = [name |-> "from_config_device", device |-> device]
        /\ UNCHANGED <<observation_space, action_space, config, args>>
        /\ UNCHANGED <<forwardVars, goalVars, probeVars, datasetVars, tutorialVars, encoderVars>>

\* ObjGoalResNetPolicy(observation_space, action_space): every default taken
NewPolicy ==
    \E env \in Envs :
        /\ policy' = PolicyInit([observation_space |-> observation_space,
                                  action_space |-> action_space], env)
        /\ op' = [name |-> "new", device |-> NoneValue]
        /\ UNCHANGED <<observation_space, action_space, config, args>>
        /\ UNCHANGED <<forwardVars, goalVars, probeVars, datasetVars, tutorialVars, encoderVars>>

NextPolicy == ConfigArgs \/ FromConfig \/ FromConfigDevice \/ NewPolicy

SpecPolicy == InitPolicy /\ [][NextPolicy]_vars

(***************************************************************************)
(* The forward state machine: a network built by from_config, then a       *)
(* forward call on a batch of at most MaxBatch environments.  forward      *)
(* assigns no attribute of the network, so calls do not influence one      *)
(* another and each behaviour follows one call.                            *)
(***************************************************************************)
MaxBatch == 2

ForwardBackbones == {"resnet50", "resnet50_clip"}

\* shapes of precomputed features a caller may pass as 'visual_features'
FeatureShapes(self) ==
    {self.visual_encoder.output_shape,
     IF self.visual_encoder.output_shape = <<2048, 7, 7>> THEN <<1024, 4, 4>>
     ELSE <<2048, 7, 7>>}

\* The observation batch: the object goal and the image sensors of the
\* observation space, GPS/compass readings as chosen (with the space's shape
\* when the space has the sensor), and precomputed features when given.
Observations(space, B, withGps, withCompass, features) ==
    LET keys == ((DOMAIN space) \ {GpsUuid, CompassUuid})
                    \cup (IF withGps THEN {GpsUuid} ELSE {})
                    \cup (IF withCompass THEN {CompassUuid} ELSE {})
                    \cup (IF features # NoTensor THEN {"visual_features"} ELSE {})
    IN  [k \in keys |->
            IF k = "visual_features" THEN <<B>> \o features
            ELSE IF k \in DOMAIN space THEN <<B>> \o space[k].shape
            ELSE IF k = GpsUuid THEN <<B, 2>>
            ELSE <<B, 1>>]

\* the recurrent hidden states a caller passes, opaque to this file
HiddenStates == {"hidden states h0", "hidden states h1"}

\* values a caller may pass as a previous action that are not actions of the
\* space: below 0 and just above the last action
OffActions(space) == {0 - 2, 0 - 1, space.n}

\* batches of previous actions: every batch of actions 0..n-1 of the action
\* space, and the batches whose last element is not an action
PrevActions(space, B) ==
    [1..B -> 0..(space.n - 1)]
        \cup { [b \in 1..B |-> IF b = B THEN a ELSE 0] : a \in OffActions(space) }

InitForward ==
    /\ observation_space \in ObservationSpaces
    /\ action_space \in ActionSpaces
    /\ config \in {c \in Configs :
                      /\ c.RL.DDPPO.backbone \in ForwardBackbones
                      /\ c.RL.PPO.hidden_size = PolicyDefaults.hidden_size}
    /\ op = [name |-> "from_config", device |-> NoneValue]
    /\ args = NoneValue
    /\ \E env \in Envs :
           policy = from_config(config, observation_space, action_space, env)
    /\ policy.raised = "none"
    /\ net = policy.net
    /\ fwd = NoFwd
    /\ tensor_goal_encoder = NoGoalEncoder
    /\ goal_call = NoGoalCall
    /\ linear_encoder = NoLinearEncoder /\ step = NoStep
    /\ thor_input = NoThorInput /\ dataset = EmptyDataset /\ item = NoItem
    /\ torch_cuda_is_available = FALSE
    /\ experiment_config = NoExperimentConfig /\ pipeline = NoPipeline
    /\ resnet_encoder = NoResNetEncoder /\ encoder_call = NoEncoderCall

Forward ==
    \E B \in 1..MaxBatch, withGps \in BOOLEAN, withCompass \in BOOLEAN :
    \E features \in {NoTensor} \cup FeatureShapes(net) :
    \E rnn_hidden_states \in HiddenStates :
    \E prev_actions \in PrevActions(action_space, B), masks \in [1..B -> BOOLEAN] :
        /\ ~fwd.called
        /\ fwd' = NetForward(net,
                      Observations(observation_space, B, withGps, withCompass, features),
                      rnn_hidden_states, prev_actions, masks)
        /\ UNCHANGED net
        /\ UNCHANGED <<policyVars, goalVars, probeVars, datasetVars, tutorialVars, encoderVars>>

NextForward == Forward

SpecForward == InitForward /\ [][NextForward]_vars

(***************************************************************************)
(* The goal-encoder state machine: an encoder built for a small feature    *)
(* map, then one forward call on a batch with contents.  Features are      *)
(* numbered by position; the target embedding's values are drawn freely.   *)
(***************************************************************************)
GoalTensorShapes == {<<2, 1, 2>>, <<3, 2, 2>>, <<2, 2, 1>>}
GoalClassDims == {1, 2}
GoalHiddenOutDims == {<<2, 1>>, <<3, 2>>}
EmbeddingValues == {<<"e", 0>>, <<"e", 1>>}

InitGoal ==
    /\ tensor_goal_encoder \in
           { ResnetTensorGoalEncoderInit(shape, cd, hid, comb) :
               shape \in GoalTensorShapes, cd \in GoalClassDims,
               hid \in GoalHiddenOutDims, comb \in GoalHiddenOutDims }
    /\ goal_call = NoGoalCall
    /\ observation_space = <<>> /\ action_space = [n |-> 0]
    /\ config = NoneValue /\ op = NoOp /\ args = NoneValue /\ policy = NoPolicy
    /\ net = EmptyNet /\ fwd = NoFwd
    /\ linear_encoder = NoLinearEncoder /\ step = NoStep
    /\ thor_input = NoThorInput /\ dataset = EmptyDataset /\ item = NoItem
    /\ torch_cuda_is_available = FALSE
    /\ experiment_config = NoExperimentConfig /\ pipeline = NoPipeline
    /\ resnet_encoder = NoResNetEncoder /\ encoder_call = NoEncoderCall

\* forward(resnet_input, target_emb): features of the shape the encoder was
\* built for, or of another shape; target_emb is obj_categories_embedding of a
\* (B, 1) tensor, so (B, 1, class_dims)
GoalForward ==
    \E B \in 1..MaxBatch, shape \in GoalTensorShapes :
    \E values \in [1..(B * tensor_goal_encoder.class_dims) -> EmbeddingValues] :
        /\ ~goal_call.called
        /\ goal_call' = GoalEncoderForwardValues(tensor_goal_encoder,
               Tensor(<<B>> \o shape, [p \in 1..Numel(<<B>> \o shape) |-> <<"f", p>>]),
               Tensor(<<B, 1, tensor_goal_encoder.class_dims>>, values))
        /\ UNCHANGED tensor_goal_encoder
        /\ UNCHANGED <<policyVars, forwardVars, probeVars, datasetVars, tutorialVars, encoderVars>>

NextGoal == GoalForward

SpecGoal == InitGoal /\ [][NextGoal]_vars

(***************************************************************************)
(* The linear-probe state machine: a LinearEncoder is constructed for an   *)
(* (embedding_type, prediction_type) pair, then the trainer calls its      *)
(* steps on batches.  For the two valid_moves_forward types the labels are *)
(* integers; for the others only the batch size matters here.              *)
(***************************************************************************)
ProbeEmbeddingInputs == EmbeddingTypes \cup {"rn50_clip_conv"}
ProbePredictionInputs == PredictionTypes \cup {"depth_estimation"}

LabelValues == (-1)..(max_forward_steps + 2)

ProbeBatches(prediction_type) ==
    IF prediction_type \in {"valid_moves_forward", "valid_moves_forward_cls"}
    THEN UNION { {[y |-> l] : l \in [1..B -> LabelValues]} : B \in 1..MaxBatch }
    ELSE { [y |-> [b \in 1..B |-> "label"]] : B \in 1..MaxBatch }

idleOutsideProbe == <<policyVars, forwardVars, goalVars, datasetVars, tutorialVars, encoderVars>>

InitProbe ==
    /\ linear_encoder = NoLinearEncoder /\ step = NoStep
    /\ thor_input = NoThorInput /\ dataset = EmptyDataset /\ item = NoItem
    /\ observation_space = <<>> /\ action_space = [n |-> 0]
    /\ config = NoneValue /\ op = NoOp /\ args = NoneValue /\ policy = NoPolicy
    /\ net = EmptyNet /\ fwd = NoFwd
    /\ tensor_goal_encoder = NoGoalEncoder /\ goal_call = NoGoalCall
    /\ torch_cuda_is_available = FALSE
    /\ experiment_config = NoExperimentConfig /\ pipeline = NoPipeline
    /\ resnet_encoder = NoResNetEncoder /\ encoder_call = NoEncoderCall

NewLinearEncoder ==
    \E et \in ProbeEmbeddingInputs, pt \in ProbePredictionInputs :
        /\ ~linear_encoder.constructed
        /\ linear_encoder' = LinearEncoderInit(et, pt)
        /\ UNCHANGED step
        /\ UNCHANGED idleOutsideProbe

ProbeReady == linear_encoder.constructed /\ linear_encoder.raised = "none"

TrainingStep ==
    \E batch \in ProbeBatches(linear_encoder.hparams.prediction_type) :
        /\ ProbeReady
        /\ step' = training_step(linear_encoder, batch)
        /\ UNCHANGED linear_encoder
        /\ UNCHANGED idleOutsideProbe

ValidationStep ==
    \E batch \in ProbeBatches(linear_encoder.hparams.prediction_type) :
        /\ ProbeReady
        /\ step' = validation_step(linear_encoder, batch)
        /\ UNCHANGED linear_encoder
        /\ UNCHANGED idleOutsideProbe

TestStep ==
    \E batch \in ProbeBatches(linear_encoder.hparams.prediction_type) :
        /\ ProbeReady
        /\ step' = test_step(linear_encoder, batch)
        /\ UNCHANGED linear_encoder
        /\ UNCHANGED idleOutsideProbe

NextProbe == NewLinearEncoder \/ TrainingStep \/ ValidationStep \/ TestStep

SpecProbe == InitProbe /\ [][NextProbe]_vars

(***************************************************************************)
(* The dataset state machine: a split is loaded, then items are read.      *)
(***************************************************************************)
MaxScenes == 2
MaxFrames == 2
MaxRecords == 2

Images == {"img_a", "img_b"}
ObjectIndices == {0, 7}

idleOutsideDataset == <<policyVars, forwardVars, goalVars, probeVars, tutorialVars, encoderVars>>

InitDataset ==
    /\ thor_input = NoThorInput /\ dataset = EmptyDataset /\ item = NoItem
    /\ linear_encoder = NoLinearEncoder /\ step = NoStep
    /\ observation_space = <<>> /\ action_space = [n |-> 0]
    /\ config = NoneValue /\ op = NoOp /\ args = NoneValue /\ policy = NoPolicy
    /\ net = EmptyNet /\ fwd = NoFwd
    /\ tensor_goal_encoder = NoGoalEncoder /\ goal_call = NoGoalCall
    /\ torch_cuda_is_available = FALSE
    /\ experiment_config = NoExperimentConfig /\ pipeline = NoPipeline
    /\ resnet_encoder = NoResNetEncoder /\ encoder_call = NoEncoderCall

\* a {split}.pt file: scene s holds counts[s] frames, frame j of scene s
\* carrying the features of id <<s, j>>
LoadScenes ==
    \E pt \in PredictionTypes \ {"pickupable_objects"}, et \in EmbeddingTypes :
    \E n \in 0..MaxScenes :
    \E counts \in [1..n -> 0..MaxFrames] :
        LET input == [NoThorInput EXCEPT
                        !.prediction_type = pt, !.embedding_type = et,
                        !.scenes = [s \in 1..n |->
                                      [name |-> s,
                                       frames |-> [j \in 1..counts[s] |->
                                                      Frame(<<s, j>>)]]]]
        IN  /\ ~dataset.constructed
            /\ thor_input' = input
            /\ dataset' = THOREmbeddingsDatasetInit(input)
            /\ UNCHANGED item
            /\ UNCHANGED idleOutsideDataset

\* a {split}.pkl file of (image, obj, pickupable) tuples and image_features.pt
LoadRecords ==
    \E et \in EmbeddingTypes, m \in 0..MaxRecords :
    \E records \in [1..m -> Images \X ObjectIndices \X BOOLEAN] :
        LET input == [NoThorInput EXCEPT
                        !.prediction_type = "pickupable_objects",
                        !.embedding_type = et,
                        !.records = records,
                        !.image_features = ImageFeatures(Images)]
        IN  /\ ~dataset.constructed
            /\ thor_input' = input
            /\ dataset' = THOREmbeddingsDatasetInit(input)
            /\ UNCHANGED item
            /\ UNCHANGED idleOutsideDataset

GetItem ==
    \E index \in (0 - dataset_len(dataset) - 1)..dataset_len(dataset) :
        /\ dataset.constructed /\ dataset.raised = "none"
        /\ item' = dataset_getitem(dataset, index)
        /\ UNCHANGED <<thor_input, dataset>>
        /\ UNCHANGED idleOutsideDataset

NextDataset == LoadScenes \/ LoadRecords \/ GetItem

SpecDataset == InitDataset /\ [][NextDataset]_vars

(***************************************************************************)
(* The tutorial: the process has a CUDA availability, the answer of        *)
(* torch.cuda.is_available(); it is fixed by the installation and the      *)
(* devices, and nothing in the module changes it.  Importing the module    *)
(* runs the class body, which reads it for GPU_ID; the runner then calls   *)
(* training_pipeline, which reads it again for the dataset file name.      *)
(***************************************************************************)
MaxPpoSetting == 3
TotalTrainSteps == {0, 1000000, 7500000}
TrajectoriesDirs == {"allenact_plugins/babyai_plugin/data/demos", "/data/demos/"}
BaseConfigs ==
    { [TOTAL_IL_TRAIN_STEPS |-> t, NUM_TRAIN_SAMPLERS |-> 20,
       ROLLOUT_STEPS |-> 128, INSTR_LEN |-> 5,
       ppo |-> [num_mini_batch |-> nmb, update_repeats |-> ur]] :
        t \in TotalTrainSteps, nmb \in 1..MaxPpoSetting, ur \in 1..MaxPpoSetting }

idleOutsideTutorial == <<policyVars, forwardVars, goalVars, probeVars, datasetVars, encoderVars>>

InitTutorial ==
    /\ torch_cuda_is_available \in BOOLEAN
    /\ experiment_config \in
           { ExperimentConfigClass(base, torch_cuda_is_available, dir) :
               base \in BaseConfigs, dir \in TrajectoriesDirs }
    /\ pipeline = NoPipeline
    /\ thor_input = NoThorInput /\ dataset = EmptyDataset /\ item = NoItem
    /\ linear_encoder = NoLinearEncoder /\ step = NoStep
    /\ observation_space = <<>> /\ action_space = [n |-> 0]
    /\ config = NoneValue /\ op = NoOp /\ args = NoneValue /\ policy = NoPolicy
    /\ net = EmptyNet /\ fwd = NoFwd
    /\ tensor_goal_encoder = NoGoalEncoder /\ goal_call = NoGoalCall
    /\ resnet_encoder = NoResNetEncoder /\ encoder_call = NoEncoderCall

TrainingPipeline ==
    /\ pipeline' = training_pipeline(experiment_config, torch_cuda_is_available)
    /\ UNCHANGED <<torch_cuda_is_available, experiment_config>>
    /\ UNCHANGED idleOutsideTutorial

NextTutorial == TrainingPipeline

SpecTutorial == InitTutorial /\ [][NextTutorial]_vars

(***************************************************************************)
(* ResNetEncoder on its own: constructed for an observation space of image *)
(* sensors with the backbone make_backbone returns, then called on a batch *)
(* of observations of that space.                                          *)
(***************************************************************************)
ImageSpacesOf(k) ==
    IF k = "rgb"
    THEN {[shape |-> <<256, 256, 3>>, high |-> 255],
          [shape |-> <<128, 128, 3>>, high |-> 255],
          [shape |-> <<48, 48, 3>>, high |-> 255]}
    ELSE {[shape |-> <<256, 256, 1>>, high |-> 1],
          [shape |-> <<128, 128, 1>>, high |-> 1]}

ImageSpaces ==
    UNION { {f \in [K -> ImageSpacesOf("rgb") \cup ImageSpacesOf("depth")] :
                \A k \in K : f[k] \in ImageSpacesOf(k)} :
            K \in (SUBSET {"rgb", "depth"}) \ {{}} }

idleOutsideEncoder == <<action_space, config, op, args, policy, forwardVars, goalVars, probeVars, datasetVars, tutorialVars>>

InitEncoder ==
    /\ observation_space \in ImageSpaces
    /\ resnet_encoder = NoResNetEncoder
    /\ encoder_call = NoEncoderCall
    /\ action_space = [n |-> 0]
    /\ config = NoneValue /\ op = NoOp /\ args = NoneValue /\ policy = NoPolicy
    /\ net = EmptyNet /\ fwd = NoFwd
    /\ tensor_goal_encoder = NoGoalEncoder /\ goal_call = NoGoalCall
    /\ linear_encoder = NoLinearEncoder /\ step = NoStep
    /\ thor_input = NoThorInput /\ dataset = EmptyDataset /\ item = NoItem
    /\ torch_cuda_is_available = FALSE
    /\ experiment_config = NoExperimentConfig /\ pipeline = NoPipeline

NewResNetEncoder ==
    \E env \in Envs, normalize_visual_inputs \in BOOLEAN :
        /\ ~resnet_encoder.constructed
        /\ resnet_encoder' =
               [constructed |-> TRUE,
                self |-> ResNetEncoderInit(observation_space, env.backbone,
                                           normalize_visual_inputs)]
        /\ UNCHANGED <<observation_space, encoder_call>>
        /\ UNCHANGED idleOutsideEncoder

EncoderForward ==
    \E B \in 1..MaxBatch :
        /\ resnet_encoder.constructed
        /\ resnet_encoder.self.raised = "none"
        /\ encoder_call' =
               ResNetEncoderForward(resnet_encoder.self,
                   [k \in DOMAIN observation_space |->
                       <<B>> \o observation_space[k].shape])
        /\ UNCHANGED <<observation_space, resnet_encoder>>
        /\ UNCHANGED idleOutsideEncoder

NextEncoder == NewResNetEncoder \/ EncoderForward

SpecEncoder == InitEncoder /\ [][NextEncoder]_vars

(***************************************************************************)
(*                    Properties of the policy file                        *)
(***************************************************************************)
Constructors == {"from_config", "from_config_device", "new"}

\* C1: when forward's observations carry exactly the GPS/compass keys of the
\* observation space, the vector concatenated and handed to the state encoder
\* has the width the state encoder was built with, which is
\* goal_encoder.output_dims + 32 + 32 per GPS + 32 per compass; and such a
\* vector is indeed handed over whenever the inputs are ones the earlier
\* layers accept: image sensors of one size or precomputed features of the
\* encoder's output shape, and previous actions whose row is in the table.
C1_KeysMatch ==
    /\ (GpsUuid \in DOMAIN fwd.observations) <=> (GpsUuid \in DOMAIN observation_space)
    /\ (CompassUuid \in DOMAIN fwd.observations) <=> (CompassUuid \in DOMAIN observation_space)

C1_Batch == Len(fwd.prev_actions)

C1_ImagesAgree ==
    ("rgb" \in DOMAIN fwd.observations /\ "depth" \in DOMAIN fwd.observations) =>
        /\ fwd.observations["rgb"][2] = fwd.observations["depth"][2]
        /\ fwd.observations["rgb"][3] = fwd.observations["depth"][3]

C1_FeaturesAccepted ==
    IF "visual_features" \in DOMAIN fwd.observations
    THEN fwd.observations["visual_features"] =
             <<C1_Batch>> \o net.visual_encoder.output_shape
    ELSE C1_ImagesAgree

C1_RowsInTable ==
    \A b \in 1..C1_Batch :
        fwd.masks[b] => fwd.prev_actions[b] \in (0 - 1)..(action_space.n - 1)

C1_RnnInputWidth ==
    (fwd.called /\ C1_KeysMatch) =>
        /\ net.state_encoder.input_size =
               output_dims(net.goal_encoder) + 32
               + (IF GpsUuid \in DOMAIN observation_space THEN 32 ELSE 0)
               + (IF CompassUuid \in DOMAIN observation_space THEN 32 ELSE 0)
        /\ fwd.rnn_input # NoTensor =>
               /\ fwd.rnn_input = <<C1_Batch, net.state_encoder.input_size>>
               /\ fwd.state_encoder_in =
                      <<fwd.rnn_input, fwd.rnn_hidden_states, fwd.masks>>
               /\ fwd.raised = "none"
        /\ fwd.state_encoder_in # <<>> => fwd.rnn_input # NoTensor
        /\ (C1_FeaturesAccepted /\ C1_RowsInTable) =>
               /\ fwd.rnn_input # NoTensor
               /\ fwd.returned # <<>>
        /\ ~C1_RowsInTable => (fwd.rnn_input = NoTensor /\ fwd.raised # "none")

C1_Witness ==
    /\ fwd.called /\ C1_KeysMatch
    /\ GpsUuid \in DOMAIN observation_space
    /\ CompassUuid \in DOMAIN observation_space
    /\ "visual_features" \notin DOMAIN fwd.observations
    /\ fwd.raised = "none"
    /\ Len(fwd.x) = 4
    /\ fwd.rnn_input[2] = output_dims(net.goal_encoder) + 96

\* C2: the backbone dispatch either selects an encoder class (for 'resnet50',
\* 'resnet50_imagenet' and every string starting with 'resnet50_clip') or
\* fails with NotImplementedError (every other string); nothing else.
C2_Recognized(b) ==
    b \in {"resnet50", "resnet50_imagenet"} \/ StartsWith(b, "resnet50_clip")

C2_BackboneDispatch ==
    (op.name \in Constructors /\ policy.net.dispatch # NoneValue) =>
        IF C2_Recognized(Param(policy.kwargs, "backbone"))
        THEN policy.net.dispatch \in
                 {"ResNetEncoder", "ResNetImageNetEncoder", "ResNetCLIPEncoder"}
        ELSE /\ policy.net.dispatch = "NotImplementedError"
             /\ policy.raised = "NotImplementedError"

\* C3: constructing the policy fails an assertion before anything is built
\* when the observation space lacks the object goal or has neither 'rgb' nor
\* 'depth'; otherwise network construction is started.
C3_PolicyAssertions ==
    LET obs == observation_space
        good == /\ ObjectGoalUuid \in DOMAIN obs
                /\ ("rgb" \in DOMAIN obs \/ "depth" \in DOMAIN obs)
    IN  (policy.kwargs # <<>>) =>
            IF good
            THEN policy.net_started /\ Len(policy.net.built) >= 1
            ELSE /\ policy.raised = "AssertionError"
                 /\ ~policy.net_started
                 /\ policy.net.built = <<>>

C3_Witness ==
    /\ op.name = "from_config"
    /\ ObjectGoalUuid \in DOMAIN observation_space
    /\ DOMAIN observation_space \cap {"rgb", "depth"} = {}
    /\ policy.raised = "AssertionError"
    /\ policy.net.built = <<>>

C3_WitnessStarted ==
    /\ op.name = "from_config"
    /\ DOMAIN observation_space = {ObjectGoalUuid, "depth"}
    /\ policy.net_started
    /\ policy.raised = "none"

\* C10: from_config and from_config_device hand the constructor the same
\* keyword arguments, read from the configuration, except that
\* from_config_device adds the device; config_args constructs nothing.
C10_Args ==
    [observation_space |-> observation_space,
     action_space |-> action_space,
     hidden_size |-> config.RL.PPO.hidden_size,
     rnn_type |-> config.RL.DDPPO.rnn_type,
     num_recurrent_layers |-> config.RL.DDPPO.num_recurrent_layers,
     backbone |-> config.RL.DDPPO.backbone,
     normalize_visual_inputs |-> ("rgb" \in DOMAIN observation_space)]

C10_State ==
    /\ op.name = "from_config" =>
           /\ DOMAIN policy.kwargs = DOMAIN C10_Args
           /\ \A k \in DOMAIN C10_Args : policy.kwargs[k] = C10_Args[k]
           /\ policy.net.device = NoneValue
    /\ op.name = "from_config_device" =>
           /\ DOMAIN policy.kwargs = DOMAIN C10_Args \cup {"device"}
           /\ \A k \in DOMAIN C10_Args : policy.kwargs[k] = C10_Args[k]
           /\ policy.kwargs.device = op.device
           /\ policy.net.built # <<>> => policy.net.device = op.device

C10_SameArguments ==
    /\ []C10_State
    /\ [][op'.name = "config_args" => (policy' = policy /\ args' = C10_Args)]_vars

C10_Witness ==
    /\ op.name = "from_config_device"
    /\ op.device = "cuda:0"
    /\ policy.raised = "none"
    /\ policy.kwargs.hidden_size = 256
    /\ policy.net.state_encoder.hidden_size = 256
    /\ policy.kwargs.normalize_visual_inputs

\* C6: for features of the shape the goal encoder was built for and a target
\* embedding of class_dims values per batch element, distribute_target puts
\* element b's class_dims-vector at every spatial cell, the combiner's input
\* holds the compressed features followed channel-wise by that vector
\* (resnet_compressor_out + class_dims channels), and the result is one
\* flattened vector per batch element of width output_dims = combiner_out*H*W.
C6_Pre ==
    /\ goal_call.called
    /\ goal_call.resnet_input.shape =
           <<goal_call.target_emb.shape[1]>> \o tensor_goal_encoder.resnet_tensor_shape

C6_GoalEncoderForward ==
    C6_Pre =>
        LET ge == tensor_goal_encoder
            B  == goal_call.target_emb.shape[1]
            H  == ge.resnet_tensor_shape[2]
            W  == ge.resnet_tensor_shape[3]
            cd == ge.class_dims
            comp_out == ge.resnet_hid_out_dims[2]
            cat == goal_call.combiner_in
        IN  /\ goal_call.raised = "none"
            /\ Len(goal_call.embs) = 2
            /\ goal_call.embs[2].shape = <<B, cd, H, W>>
            /\ \A b \in 1..B, c \in 1..cd, h \in 1..H, w \in 1..W :
                   At(goal_call.embs[2], <<b, c, h, w>>)
                       = At(goal_call.target_emb, <<b, 1, c>>)
            /\ cat.shape = <<B, comp_out + cd, H, W>>
            /\ cat.shape[2] = ge.target_obs_combiner[1].in_channels
            /\ \A b \in 1..B, h \in 1..H, w \in 1..W :
                   /\ \A c \in 1..comp_out :
                          At(cat, <<b, c, h, w>>) =
                              <<"resnet_compressor", c,
                                [k \in 1..ge.resnet_tensor_shape[1] |->
                                    At(goal_call.resnet_input, <<b, k, h, w>>)]>>
                   /\ \A c \in 1..cd :
                          At(cat, <<b, comp_out + c, h, w>>)
                              = At(goal_call.target_emb, <<b, 1, c>>)
            /\ goal_call.out.shape = <<B, output_dims(ge)>>
            /\ output_dims(ge) = ge.combine_hid_out_dims[2] * H * W
            /\ GoalEncoderForward(ge, goal_call.resnet_input.shape,
                                  goal_call.target_emb.shape).out = goal_call.out.shape

C6_Witness ==
    /\ C6_Pre
    /\ goal_call.raised = "none"
    /\ goal_call.target_emb.shape = <<2, 1, 2>>
    /\ goal_call.target_emb.flat = <<(<<"e", 0>>), (<<"e", 1>>), (<<"e", 1>>), (<<"e", 1>>)>>
    /\ tensor_goal_encoder.resnet_tensor_shape = <<3, 2, 2>>
    /\ tensor_goal_encoder.resnet_hid_out_dims = <<3, 2>>
    /\ goal_call.combiner_in.shape = <<2, 4, 2, 2>>
    /\ goal_call.out.shape[2] = 4 * tensor_goal_encoder.combine_hid_out_dims[2]

(***************************************************************************)
(*                    Properties of linear_probe.py                        *)
(***************************************************************************)
\* C4: for each of the five prediction types compute_loss assigns exactly one
\* loss (cross-entropy for object_presence, object_presence_grid and
\* valid_moves_forward_cls, mean-squared error for valid_moves_forward, binary
\* cross-entropy for pickupable_objects) and never leaves it unbound; with
\* eval=False it returns the loss alone, with eval=True the pair
\* (loss, metrics) whose only key is 'accuracy'.
C4_ExpectedLoss(pt) ==
    CASE pt = "object_presence"         -> "cross_entropy"
      [] pt = "object_presence_grid"    -> "cross_entropy"
      [] pt = "valid_moves_forward_cls" -> "cross_entropy"
      [] pt = "valid_moves_forward"     -> "mse_loss"
      [] pt = "pickupable_objects"      -> "binary_cross_entropy"

C4_ComputeLoss ==
    (step.name # "none") =>
        LET pt == linear_encoder.hparams.prediction_type
            r  == step.result
        IN  /\ pt \in PredictionTypes
            /\ step.eval = (step.name # "training_step")
            /\ r.raised # "UnboundLocalError"
            /\ r.raised # "none" =>
                   /\ pt = "valid_moves_forward_cls"
                   /\ \E b \in 1..Len(step.given.y) : step.given.y[b] < 0
            /\ r.raised = "none" =>
                   /\ r.loss = C4_ExpectedLoss(pt)
                   /\ ~step.eval => (r.returned = <<"loss">> /\ r.metrics = <<>>)
                   /\ step.eval =>
                          /\ r.returned = <<"loss", "metrics">>
                          /\ DOMAIN r.metrics = {"accuracy"}
                   /\ step.raised = "none"
                   /\ step.returns = r.loss

C4_Witness ==
    /\ step.name = "validation_step"
    /\ linear_encoder.hparams.prediction_type = "valid_moves_forward"
    /\ step.result.loss = "mse_loss"
    /\ step.result.returned = <<"loss", "metrics">>
    /\ step.logged = {"val_loss", "val_acc"}

\* C5: __init__ builds a head only for a valid pair: object_presence_grid with
\* a conv embedding; the other four prediction types with an avgpool embedding
\* (input width 2048) or clip_attnpool (input width 1024); a mismatched
\* embedding fails an assertion, an unknown prediction type fails with
\* NotImplementedError, and in every failing case no model is built.
C5_HeadConstruction ==
    linear_encoder.constructed =>
        LET et == linear_encoder.hparams.embedding_type
            pt == linear_encoder.hparams.prediction_type
            le == linear_encoder
        IN  /\ le.raised # "none" => le.model = NoModel
            /\ pt \notin PredictionTypes => le.raised = "NotImplementedError"
            /\ pt = "object_presence_grid" =>
                   IF et \in {"rn50_imagenet_conv", "clip_conv"}
                   THEN le.raised = "none" /\ le.model.kind = "grid"
                   ELSE le.raised = "AssertionError"
            /\ pt \in PredictionTypes \ {"object_presence_grid"} =>
                   IF et \in {"rn50_imagenet_avgpool", "clip_avgpool"}
                   THEN /\ le.raised = "none" /\ le.model.kind = "linear"
                        /\ le.model.input_dim = 2048
                   ELSE IF et = "clip_attnpool"
                   THEN /\ le.raised = "none" /\ le.model.kind = "linear"
                        /\ le.model.input_dim = 1024
                   ELSE le.raised = "AssertionError"

C5_Witness ==
    /\ linear_encoder.constructed
    /\ linear_encoder.hparams.embedding_type = "clip_attnpool"
    /\ linear_encoder.hparams.prediction_type = "pickupable_objects"
    /\ linear_encoder.raised = "none"
    /\ linear_encoder.model.input_dim = 1024
    /\ linear_encoder.model.output_dim = 110

\* C7: after construction the embeddings and predictions lists are equally
\* long, __len__ is the number of input records (frames over all scenes, or
\* tuples for pickupable_objects), and __getitem__(i) returns the embedding
\* and the label of the i-th input record, in input order (an index counted
\* from the end, -1..-len, names the record len + i); for
\* valid_moves_forward_cls the label is the one stored under
\* 'valid_moves_forward'.
RECURSIVE C7_FramesBefore(_)
C7_FramesBefore(s) ==
    IF s = 1 THEN 0
    ELSE C7_FramesBefore(s - 1) + Len(thor_input.scenes[s - 1].frames)

C7_LabelName ==
    IF thor_input.prediction_type = "valid_moves_forward_cls"
    THEN "valid_moves_forward"
    ELSE thor_input.prediction_type

C7_DatasetPairs ==
    dataset.constructed =>
        LET et == thor_input.embedding_type
            n  == Len(thor_input.scenes)
            m  == Len(thor_input.records)
        IN  /\ dataset.raised = "none"
            /\ Len(dataset.embeddings) = Len(dataset.predictions)
            /\ thor_input.prediction_type = "pickupable_objects" =>
                   /\ dataset_len(dataset) = m
                   /\ \A i \in 0..(m - 1) :
                          dataset_getitem(dataset, i).value =
                              << thor_input.image_features[thor_input.records[i + 1][1]][et],
                                 << thor_input.records[i + 1][2],
                                    IF thor_input.records[i + 1][3] THEN 1 ELSE 0 >> >>
            /\ thor_input.prediction_type # "pickupable_objects" =>
                   /\ dataset_len(dataset) = C7_FramesBefore(n + 1)
                   /\ \A sc \in 1..n :
                      \A j \in 1..Len(thor_input.scenes[sc].frames) :
                          dataset_getitem(dataset, C7_FramesBefore(sc) + j - 1).value =
                              << <<et, <<sc, j>>>>, <<C7_LabelName, <<sc, j>>>> >>
            /\ \A i \in 1..dataset_len(dataset) :
                   dataset_getitem(dataset, 0 - i).value =
                       dataset_getitem(dataset, dataset_len(dataset) - i).value
            /\ (item.called /\ item.raised = "none") =>
                   /\ item.index < dataset_len(dataset)
                   /\ item.index >= 0 - dataset_len(dataset)
                   /\ item.value = dataset_getitem(dataset, item.index).value
            /\ (item.called /\ item.raised # "none") =>
                   /\ item.raised = "IndexError"
                   /\ \/ item.index >= dataset_len(dataset)
                      \/ item.index < 0 - dataset_len(dataset)

C7_Witness ==
    /\ dataset.constructed
    /\ thor_input.prediction_type = "valid_moves_forward_cls"
    /\ thor_input.embedding_type = "clip_avgpool"
    /\ Len(thor_input.scenes) = 2
    /\ Len(thor_input.scenes[1].frames) = 2
    /\ dataset_len(dataset) = 3
    /\ item.called /\ item.index = 2
    /\ item.value = << <<"clip_avgpool", <<2, 1>>>>,
                       <<"valid_moves_forward", <<2, 1>>>> >>

C7_WitnessFromEnd ==
    /\ dataset.constructed
    /\ thor_input.prediction_type = "object_presence"
    /\ dataset_len(dataset) = 2
    /\ item.called /\ item.index = 0 - 1 /\ item.raised = "none"
    /\ item.value = << <<thor_input.embedding_type, <<1, 2>>>>,
                       <<"object_presence", <<1, 2>>>> >>

C7_WitnessPickupable ==
    /\ dataset.constructed
    /\ thor_input.prediction_type = "pickupable_objects"
    /\ dataset_len(dataset) = 2
    /\ item.called /\ item.index = 1
    /\ item.value = << <<"clip_conv", "img_b">>, <<7, 1>> >>

(***************************************************************************)
(*                    Properties of the tutorial                           *)
(***************************************************************************)
C8_Names(seq) == {seq[i] : i \in 1..Len(seq)}

\* C8: the declared training pipeline has exactly one stage and is
\* referentially closed: the loss names of the stage and of its component are
\* keys of named_losses, the component's loss names are among the stage's,
\* the component's storage_uuid is a key of named_storages, and the stage's
\* max_stage_steps is the pipeline's total_train_steps, TOTAL_IL_TRAIN_STEPS.
C8_PipelineClosed ==
    pipeline.called =>
        /\ Len(pipeline.pipeline_stages) = 1
        /\ LET stage == pipeline.pipeline_stages[1]
           IN  /\ C8_Names(stage.loss_names) \subseteq DOMAIN pipeline.named_losses
               /\ \A c \in 1..Len(stage.stage_components) :
                      LET comp == stage.stage_components[c]
                      IN  /\ C8_Names(comp.loss_names) \subseteq DOMAIN pipeline.named_losses
                          /\ C8_Names(comp.loss_names) \subseteq C8_Names(stage.loss_names)
                          /\ comp.storage_uuid \in DOMAIN pipeline.named_storages
               /\ stage.max_stage_steps = pipeline.total_train_steps
               /\ pipeline.total_train_steps = experiment_config.TOTAL_IL_TRAIN_STEPS

C8_Witness ==
    /\ pipeline.called
    /\ experiment_config.TOTAL_IL_TRAIN_STEPS = 7500000
    /\ pipeline.pipeline_stages[1].max_stage_steps = 7500000
    /\ Len(pipeline.pipeline_stages[1].stage_components) = 1
    /\ pipeline.pipeline_stages[1].stage_components[1].storage_uuid = "minigrid_offpolicy_expert"
    /\ DOMAIN pipeline.named_storages = {"onpolicy", "minigrid_offpolicy_expert"}

\* C9: the pipeline passes num_mini_batch = 0 and update_repeats = 0 for
\* on-policy rollouts, and its single off-policy component runs with
\* num_mini_batch = 1 and update_repeats equal to the product of the PPO
\* defaults' num_mini_batch and update_repeats, so that the gradient updates
\* per round number as many as under the PPO defaults.
C9_UpdateBudget ==
    pipeline.called =>
        /\ pipeline.num_mini_batch = 0
        /\ pipeline.update_repeats = 0
        /\ Len(pipeline.pipeline_stages) = 1
        /\ Len(pipeline.pipeline_stages[1].stage_components) = 1
        /\ LET ts  == pipeline.pipeline_stages[1].stage_components[1].training_settings
               ppo == experiment_config.ppo
           IN  /\ ts.num_mini_batch = 1
               /\ ts.update_repeats = ppo.num_mini_batch * ppo.update_repeats
               /\ ts.num_mini_batch * ts.update_repeats =
                      ppo.num_mini_batch * ppo.update_repeats

C9_Witness ==
    /\ pipeline.called
    /\ experiment_config.ppo = [num_mini_batch |-> 2, update_repeats |-> 3]
    /\ pipeline.pipeline_stages[1].stage_components[1].training_settings =
           [update_repeats |-> 6, num_mini_batch |-> 1]
    /\ pipeline.num_mini_batch = 0 /\ pipeline.update_repeats = 0

(***************************************************************************)
(*                 Properties of the forward pass                          *)
(***************************************************************************)
\* C11: for every batch element with previous action a in 0..n-1 and mask m
\* the row looked up in prev_action_embedding is 0 (the start token) when m
\* is false and a + 1 when m is true; so the row lies in 0..n, inside the
\* table of n + 1 rows, and row 0 is never produced for an unmasked action.
C11_Reached == fwd.called /\ Len(fwd.index) = Len(fwd.prev_actions)

C11_RealAction(b) == fwd.prev_actions[b] \in 0..(action_space.n - 1)

C11_PrevActionIndex ==
    /\ (fwd.called /\ \A b \in 1..Len(fwd.prev_actions) : C11_RealAction(b)) =>
           fwd.raised # "IndexError"
    /\ (fwd.called /\ fwd.raised = "IndexError") =>
           \E b \in 1..Len(fwd.prev_actions) :
               /\ fwd.masks[b]
               /\ \/ fwd.prev_actions[b] + 1 < 0
                  \/ fwd.prev_actions[b] + 1 > action_space.n
    /\ C11_Reached =>
           /\ net.prev_action_embedding.num_embeddings = action_space.n + 1
           /\ \A b \in 1..Len(fwd.prev_actions) :
                  C11_RealAction(b) =>
                      /\ fwd.index[b] = IF fwd.masks[b] THEN fwd.prev_actions[b] + 1
                                        ELSE 0
                      /\ fwd.index[b] \in 0..action_space.n
                      /\ fwd.index[b] < net.prev_action_embedding.num_embeddings
                      /\ fwd.masks[b] => fwd.index[b] # 0

C11_Witness ==
    /\ C11_Reached
    /\ fwd.raised = "none"
    /\ Len(fwd.prev_actions) = 2
    /\ fwd.prev_actions = <<0, action_space.n - 1>>
    /\ fwd.masks = <<TRUE, TRUE>>
    /\ fwd.index = <<1, action_space.n>>

C11_WitnessStartToken ==
    /\ C11_Reached
    /\ fwd.prev_actions = <<1, 0>>
    /\ fwd.masks = <<FALSE, TRUE>>
    /\ fwd.index = <<0, 1>>

\* C12: whatever keys the observations carry, forward reaches for the compass
\* embedding layer or the GPS embedding layer only when the constructor
\* created it: a layer it uses was built, and it never fails looking up a
\* layer that was not.
C12_SensorLayersOnlyIfCreated ==
    fwd.called =>
        /\ \A layer \in {"compass_embedding", "gps_embedding"} :
               layer \in fwd.used => HasAttr(net, layer)
        /\ fwd.raised # "AttributeError"

\* C13: when the observations hold 'visual_features' they are the visual
\* feature map and the visual encoder is not invoked; when they do not, the
\* encoder is invoked exactly once on the observations; and the rest of the
\* pass (goal encoding, sensor embeddings, previous-action row, the vector
\* handed to the state encoder) is the same in both cases.
C13_Given == "visual_features" \in DOMAIN fwd.observations

C13_Rest(r) ==
    <<r.raised, r.combiner_in, r.x, r.index, r.rnn_input, r.masks,
      r.rnn_hidden_states, r.state_encoder_in, r.returned,
      r.compass_in, r.used \ {"visual_encoder"}>>

C13_WithoutFeatures ==
    [k \in (DOMAIN fwd.observations) \ {"visual_features"} |-> fwd.observations[k]]

C13_VisualFeaturesShortcut ==
    fwd.called =>
        LET B == Len(fwd.prev_actions)
            encoded == VisualEncoderCall(net, C13_WithoutFeatures, B)
            alt == NetForward(net, C13_WithoutFeatures, fwd.rnn_hidden_states,
                              fwd.prev_actions, fwd.masks)
        IN  /\ C13_Given =>
                   /\ fwd.encoder_calls = 0
                   /\ fwd.encoder_inputs = <<>>
                   /\ "visual_encoder" \notin fwd.used
                   /\ fwd.visual_feats = fwd.observations["visual_features"]
                   /\ ( /\ encoded.raised = "none"
                        /\ fwd.observations["visual_features"] = encoded.feats ) =>
                          C13_Rest(fwd) = C13_Rest(alt)
            /\ ~C13_Given =>
                   /\ fwd.encoder_calls = 1
                   /\ fwd.encoder_inputs = <<fwd.observations>>
                   /\ "visual_encoder" \in fwd.used
                   /\ fwd.raised = "none" =>
                          fwd.visual_feats = <<B>> \o net.visual_encoder.output_shape
            /\ fwd.state_encoder_in # <<>> =>
                   /\ fwd.state_encoder_in =
                          <<fwd.rnn_input, fwd.rnn_hidden_states, fwd.masks>>
                   /\ "state_encoder" \in fwd.used
            /\ fwd.raised = "none" =>
                   /\ fwd.state_encoder_in # <<>>
                   /\ fwd.returned =
                          StateEncoderCall(fwd.rnn_input, fwd.rnn_hidden_states,
                                           fwd.masks)

C13_Witness ==
    /\ fwd.called /\ C13_Given
    /\ fwd.raised = "none"
    /\ fwd.encoder_calls = 0
    /\ fwd.observations["visual_features"] =
           <<Len(fwd.prev_actions)>> \o net.visual_encoder.output_shape
    /\ fwd.rnn_input = <<Len(fwd.prev_actions), net.state_encoder.input_size>>
    /\ fwd.state_encoder_in = <<fwd.rnn_input, "hidden states h1", fwd.masks>>
    /\ fwd.returned # <<>>

C13_WitnessEncoded ==
    /\ fwd.called /\ ~C13_Given
    /\ net.visual_encoder.cls = "ResNetEncoder"
    /\ fwd.raised = "none"
    /\ fwd.encoder_calls = 1
    /\ fwd.encoder_inputs = <<fwd.observations>>
    /\ fwd.rnn_input = <<Len(fwd.prev_actions), net.state_encoder.input_size>>
    /\ fwd.state_encoder_in = <<fwd.rnn_input, "hidden states h0", fwd.masks>>

\* C14: a network exists for an observation space with the compass sensor
\* only if the compass space has shape[0] = 1 (any other shape fails the
\* assertion), and its compass embedding has input width 2; in forward the
\* reading of batch element b becomes (cos(angle_b), sin(angle_b)), cosine
\* first, so the compass embedding receives a (B, 2) tensor.
C14_OtherCompassShapes == {s.shape : s \in SpacesOf(CompassUuid)} \ {<<1>>}

C14_CompassInput ==
    /\ CompassUuid \in DOMAIN observation_space =>
           /\ observation_space[CompassUuid].shape[1] = 1
           /\ HasAttr(net, "compass_embedding")
           /\ net.compass_embedding.in_features = 2
           /\ \A shape \in C14_OtherCompassShapes, env \in Envs :
                  LET other == [observation_space EXCEPT ![CompassUuid].shape = shape]
                      made == from_config(config, other, action_space, env)
                  IN  from_config(config, observation_space, action_space, env).raised = "none"
                          => /\ made.raised = "AssertionError"
                             /\ ~HasAttr(made.net, "compass_embedding")
                             /\ ~HasAttr(made.net, "state_encoder")
    /\ (fwd.called /\ "compass_embedding" \in fwd.used) =>
           LET B == Len(fwd.prev_actions)
           IN  /\ fwd.compass_in.shape = <<B, 2>>
               /\ fwd.compass_in.shape[2] = net.compass_embedding.in_features
               /\ \A b \in 1..B :
                      /\ fwd.compass_in.flat[2 * b - 1] = <<"cos", <<"compass", b>>>>
                      /\ fwd.compass_in.flat[2 * b] = <<"sin", <<"compass", b>>>>
    /\ (fwd.called /\ CompassUuid \in DOMAIN fwd.observations
            /\ HasAttr(net, "compass_embedding") /\ Len(fwd.x) >= 2) =>
           /\ "compass_embedding" \in fwd.used
           /\ fwd.x[2] = <<Len(fwd.prev_actions), 32>>

C14_Witness ==
    /\ fwd.called /\ fwd.raised = "none"
    /\ CompassUuid \in DOMAIN observation_space
    /\ "compass_embedding" \in fwd.used
    /\ Len(fwd.prev_actions) = 2
    /\ fwd.compass_in.shape = <<2, 2>>
    /\ fwd.compass_in.flat = << <<"cos", <<"compass", 1>>>>, <<"sin", <<"compass", 1>>>>,
                                <<"cos", <<"compass", 2>>>>, <<"sin", <<"compass", 2>>>> >>

(***************************************************************************)
(*                    Properties of ResNetEncoder                          *)
(***************************************************************************)
\* C15: for every observation space with 'rgb', 'depth' or both, the encoder
\* is built for input_channels = rgb channels + depth channels (0 for an
\* absent sensor), the tensor assembled in forward has exactly that many
\* channels with the scaled RGB channels before the depth channels, and
\* output_shape is fixed at construction as
\* (round(2048 / final_spatial^2), final_spatial, final_spatial), the spatial
\* size coming from the depth observation when both are present.
C15_Channels(k) ==
    IF k \in DOMAIN observation_space THEN observation_space[k].shape[3] ELSE 0

C15_FinalSpatial ==
    LET source == IF "depth" \in DOMAIN observation_space THEN "depth" ELSE "rgb"
    IN  (observation_space[source].shape[1] \div 2)
            \div resnet_encoder.self.backbone.final_spatial_compress_den

C15_Construction ==
    /\ resnet_encoder.self.input_channels = C15_Channels("rgb") + C15_Channels("depth")
    /\ C15_FinalSpatial > 0
    /\ resnet_encoder.self.output_shape =
           << RoundHalfEven(2048, C15_FinalSpatial * C15_FinalSpatial),
              C15_FinalSpatial, C15_FinalSpatial >>

C15_Forward ==
    /\ encoder_call.raised = "none"
    /\ encoder_call.x[2] = resnet_encoder.self.input_channels
    /\ Len(encoder_call.channels) = encoder_call.x[2]
    /\ \A c \in 1..Len(encoder_call.channels) :
           encoder_call.channels[c] =
               IF c <= C15_Channels("rgb") THEN <<"rgb / 255.0", c>>
               ELSE <<"depth", c - C15_Channels("rgb")>>

C15_EncoderChannelsAndShape ==
    /\ resnet_encoder.constructed =>
           /\ resnet_encoder.self.raised = "none"
           /\ C15_Construction
    /\ encoder_call.called => C15_Forward

(***************************************************************************)
(*                 More properties of linear_probe.py                      *)
(***************************************************************************)
\* C16: in compute_loss for 'valid_moves_forward_cls' every non-negative
\* label is clamped to at most max_forward_steps before one-hot encoding: the
\* class index is in 0..max_forward_steps, the one-hot row is as wide as the
\* head's output (max_forward_steps + 1), a label above max_forward_steps
\* takes the last class, a label at or below it keeps its own, and each row
\* holds exactly one 1.
C16_Case ==
    /\ step.name # "none"
    /\ linear_encoder.hparams.prediction_type = "valid_moves_forward_cls"
    /\ \A b \in 1..Len(step.given.y) : step.given.y[b] >= 0

C16_ClampOneHot ==
    C16_Case =>
        /\ step.result.raised = "none"
        /\ Len(step.result.y) = Len(step.given.y)
        /\ \A b \in 1..Len(step.given.y) :
               LET label == step.given.y[b]
                   row   == step.result.y[b]
                   class == IF label > max_forward_steps THEN max_forward_steps
                            ELSE label
               IN  /\ class \in 0..max_forward_steps
                   /\ Len(row) = max_forward_steps + 1
                   /\ Len(row) = linear_encoder.model.output_dim
                   /\ row[class + 1] = 1
                   /\ Cardinality({k \in 1..Len(row) : row[k] = 1}) = 1
                   /\ \A k \in 1..Len(row) : row[k] \in {0, 1}

C16_Witness ==
    /\ C16_Case
    /\ Len(step.given.y) = 2
    /\ step.given.y[1] = max_forward_steps + 2
    /\ step.given.y[2] = 0
    /\ step.batch.y = <<max_forward_steps, 0>>
    /\ step.result.y[1][max_forward_steps + 1] = 1
    /\ step.result.y[2][1] = 1
    /\ step.result.raised = "none"

(***************************************************************************)
(*                 More properties of the tutorial                         *)
(***************************************************************************)
\* C17: device and expert dataset agree: GPU_ID is 0 and the storage's data
\* path names the full dataset 'BabyAI-GoToLocal-v0.pkl' exactly when CUDA is
\* available; GPU_ID is None and the data path names the truncated dataset
\* 'BabyAI-GoToLocal-v0-small.pkl' exactly when it is not.  CUDA availability
\* is read where the code reads it: when the class is defined and when
\* training_pipeline is called.
C17_EndsWith(s, suffix) ==
    Len(s) >= Len(suffix) /\ SubSeq(s, Len(s) - Len(suffix) + 1, Len(s)) = suffix

C17_DataPath == pipeline.named_storages["minigrid_offpolicy_expert"].data_path

\* GPU_ID is an integer only in a class defined with CUDA and the string None
\* only in one defined without, so each comparison is made on its own side
C17_GpuIdIsZero ==
    experiment_config.cuda_available /\ experiment_config.GPU_ID = 0

C17_GpuIdIsNone ==
    ~experiment_config.cuda_available /\ experiment_config.GPU_ID = NoneValue

C17_FullDataset ==
    /\ C17_EndsWith(C17_DataPath, "BabyAI-GoToLocal-v0.pkl")
    /\ ~C17_EndsWith(C17_DataPath, "-small.pkl")

C17_SmallDataset ==
    /\ C17_EndsWith(C17_DataPath, "BabyAI-GoToLocal-v0-small.pkl")
    /\ ~C17_EndsWith(C17_DataPath, "BabyAI-GoToLocal-v0.pkl")

C17_DeviceAndDataset ==
    /\ experiment_config.defined =>
           /\ C17_GpuIdIsZero <=> torch_cuda_is_available
           /\ C17_GpuIdIsNone <=> ~torch_cuda_is_available
    /\ pipeline.called =>
           \A cuda \in {torch_cuda_is_available, experiment_config.cuda_available,
                        pipeline.cuda_available} :
               /\ (C17_GpuIdIsZero /\ C17_FullDataset) <=> cuda
               /\ (C17_GpuIdIsNone /\ C17_SmallDataset) <=> ~cuda

C17_Witness ==
    /\ pipeline.called
    /\ pipeline.cuda_available
    /\ experiment_config.GPU_ID = 0
    /\ C17_DataPath = "/data/demos/BabyAI-GoToLocal-v0.pkl"

C17_WitnessSmall ==
    /\ pipeline.called
    /\ ~pipeline.cuda_available
    /\ experiment_config.GPU_ID = NoneValue
    /\ C17_DataPath =
           "allenact_plugins/babyai_plugin/data/demos/BabyAI-GoToLocal-v0-small.pkl"

====
